---- MODULE Spec2Model ----
(***************************************************************************)
(* Model of the two report generators of the repository:                   *)
(*   analyze_results.py         (variant "simple")                         *)
(*   analyze_results_report.py  (variant "report")                         *)
(* Both walk  root/<scenario>/<run>/*, extract CPU and wrk metrics with     *)
(* regular expressions, build one row per run directory and render the      *)
(* result.  Texts are modelled as sequences of lexemes or characters and    *)
(* the regular expressions are evaluated on them as Python's re does        *)
(* (leftmost start, greedy quantifiers with backtracking).                  *)
(***************************************************************************)
EXTENDS Integers, Sequences, FiniteSets, TLC

VARIABLES
    variant,    \* which script runs: "simple" or "report"
    pc,         \* position of the running function / of main
    arg,        \* argument of the function under call; for main, the tree at root
    res,        \* value returned by the function under call
    rows,       \* collect_results: the rows appended so far
    missing,    \* collect_results: the missing-file log so far
    walk,       \* collect_results: the run directories still to visit
    exit,       \* how the invocation of main ended, once it has
    outdir,     \* root/analysis_output: the files main wrote
    console,    \* what main printed
    prev        \* the summary CSV and the table of the earlier invocation on the same tree

vars == <<variant, pc, arg, res, rows, missing, walk, exit, outdir, console, prev>>

\* the state of main
pipe == <<rows, missing, walk, exit, outdir, console, prev>>

Variants == {"simple", "report"}

\* Optional values: Python's None / pandas' NaN is the absent value of a field.
None == [absent |-> TRUE, v |-> 0]
Some(x) == [absent |-> FALSE, v |-> x]

\* main not running: nothing collected, nothing written
Running == [done |-> FALSE, code |-> 0, error |-> ""]
NoOutdir == [exists |-> FALSE, csv |-> None, images |-> {}, report |-> None]

NoMain ==
    /\ rows = <<>>
    /\ missing = <<>>
    /\ walk = <<>>
    /\ exit = Running
    /\ outdir = NoOutdir
    /\ console = <<>>
    /\ prev = <<>>

(***************************************************************************)
(* Generic helpers                                                          *)
(***************************************************************************)
Range(s) == {s[i] : i \in 1..Len(s)}

RECURSIVE Concat(_)
Concat(ss) == IF ss = <<>> THEN <<>> ELSE Head(ss) \o Concat(Tail(ss))

SeqsUpTo(S, n) == UNION {[1..k -> S] : k \in 0..n}

(***************************************************************************)
(* custom_order (analyze_results_report.py)                                 *)
(* A table is a sequence of rows; every row carries its DataFrame index     *)
(* label idx.                                                               *)
(***************************************************************************)
\* the scenario name, a string of characters like every name of the walk
NO_INJECTION == <<"N", "O", " ", "I", "N", "J", "E", "C", "T", "I", "O", "N">>

\* df[mask]: selection by a boolean Series keeps the rows in table order.
RECURSIVE MaskSelectFrom(_, _, _)
MaskSelectFrom(df, mask, i) ==
    IF i > Len(df) THEN <<>>
    ELSE (IF mask[i] THEN <<df[i]>> ELSE <<>>) \o MaskSelectFrom(df, mask, i + 1)

MaskSelect(df, mask) == MaskSelectFrom(df, mask, 1)

IndexOf(df) == {df[i].idx : i \in 1..Len(df)}

\* a wrong c300/c500/c1000 mask: the "NO INJECTION" rows are not excluded
ConcBucketKeepsNoInj(df, c) ==
    MaskSelect(df, [i \in 1..Len(df) |-> df[i].concurrency = Some(c)])

ConcBucket(df, c) ==
    MaskSelect(df, [i \in 1..Len(df) |->
        df[i].concurrency = Some(c) /\ df[i].scenario # NO_INJECTION])

\* a wrong rest: the index labels of the "NO INJECTION" rows are not excluded
CustomOrderRestKeepsNoInj(df) ==
    LET noinj == MaskSelect(df, [i \in 1..Len(df) |-> df[i].scenario = NO_INJECTION])
        c300  == ConcBucket(df, 300)
        c500  == ConcBucket(df, 500)
        c1000 == ConcBucket(df, 1000)
        taken == IndexOf(c300) \cup IndexOf(c500) \cup IndexOf(c1000)
        rest  == MaskSelect(df, [i \in 1..Len(df) |-> df[i].idx \notin taken])
    IN  noinj \o c300 \o c500 \o c1000 \o rest

custom_order(df) ==
    LET noinj == MaskSelect(df, [i \in 1..Len(df) |-> df[i].scenario = NO_INJECTION])
        c300  == ConcBucket(df, 300)
        c500  == ConcBucket(df, 500)
        c1000 == ConcBucket(df, 1000)
        taken == IndexOf(noinj) \cup IndexOf(c300) \cup IndexOf(c500) \cup IndexOf(c1000)
        rest  == MaskSelect(df, [i \in 1..Len(df) |-> df[i].idx \notin taken])
    IN  noinj \o c300 \o c500 \o c1000 \o rest

(***************************************************************************)
(* Log texts.  A text is a sequence of lexemes: literal words, numbers and  *)
(* the line break.  Blanks between lexemes are implicit; every junction of  *)
(* the patterns below is \s* or .* so implicit blanks never decide a match. *)
(* A number carries its value in thousandths and whether it is written with *)
(* a decimal point.                                                         *)
(***************************************************************************)
Lit(s) == [k |-> "lit", s |-> s, v |-> 0, dot |-> FALSE]
Num(v, dot) == [k |-> "num", s |-> "", v |-> v, dot |-> dot]
NL == Lit("\n")

\* str.lower() / re.IGNORECASE on the literal lexemes of the CPU logs
Lower(s) ==
    CASE s = "AVG busy" -> "avg busy"
      [] s = "Avg Idle" -> "avg idle"
      [] s = "OVER"     -> "over"
      [] OTHER          -> s

\* a literal compared without re.IGNORECASE
IsLitCaseSensitive(t, word) == t.k = "lit" /\ t.s = word

IsLit(t, word) == t.k = "lit" /\ Lower(t.s) = word

\* \s* : skip line breaks from position i on
RECURSIVE SkipWs(_, _)
SkipWs(text, i) ==
    IF i <= Len(text) /\ text[i] = NL THEN SkipWs(text, i + 1) ELSE i

NoMatch == [ok |-> FALSE, end |-> 0, g |-> 0]

\* =\s*([0-9]+(?:\.[0-9]+)?)\s*%   matched at position i
PctUnit(text, i) ==
    LET j == SkipWs(text, i + 1)
        k == SkipWs(text, j + 1)
    IN  IF /\ i <= Len(text) /\ IsLit(text[i], "=")
           /\ j <= Len(text) /\ text[j].k = "num"
           /\ k <= Len(text) /\ IsLit(text[k], "%")
        THEN [ok |-> TRUE, end |-> k + 1, g |-> text[j].v]
        ELSE NoMatch

\* avg idle\s*=\s*([0-9]+(?:\.[0-9]+)?)\s*%   matched at position i
IdleUnit(text, i) ==
    IF i <= Len(text) /\ IsLit(text[i], "avg idle")
    THEN PctUnit(text, SkipWs(text, i + 1))
    ELSE NoMatch

\* over\s*([0-9]+)\s*samples   matched at position i; [0-9]+ stops at a
\* decimal point, after which \s*samples cannot match
OverUnit(text, i) ==
    LET j == SkipWs(text, i + 1)
        k == SkipWs(text, j + 1)
    IN  IF /\ i <= Len(text) /\ IsLit(text[i], "over")
           /\ j <= Len(text) /\ text[j].k = "num" /\ ~text[j].dot
           /\ k <= Len(text) /\ IsLit(text[k], "samples")
        THEN [ok |-> TRUE, end |-> k + 1, g |-> text[j].v \div 1000]
        ELSE NoMatch

\* .* may cover the lexemes a..b-1: without re.DOTALL it stops at a line break
DotStar(text, a, b, dotall) == dotall \/ \A x \in a..(b - 1) : text[x] # NL

Max(S) == CHOOSE x \in S : \A y \in S : y <= x
Min(S) == CHOOSE x \in S : \A y \in S : x <= y

\* Positions where  .*over\s*([0-9]+)\s*samples  can end its .* from e on.
OverAt(text, e, dotall) ==
    {p \in e..Len(text) : DotStar(text, e, p, dotall) /\ OverUnit(text, p).ok}

\* Positions where  .*avg idle...%.*over...samples  can end its first .* .
IdleAt(text, e, dotall) ==
    {p \in e..Len(text) :
        /\ DotStar(text, e, p, dotall)
        /\ IdleUnit(text, p).ok
        /\ OverAt(text, IdleUnit(text, p).end, dotall) # {}}

\* Pattern 1 from the "AVG busy" at position s: the candidate ends of the
\* first .* ; the greedy quantifiers take the largest at each of the three.
P1At(text, s, dotall) ==
    {p \in (s + 1)..Len(text) :
        /\ DotStar(text, s + 1, p, dotall)
        /\ PctUnit(text, p).ok
        /\ IdleAt(text, PctUnit(text, p).end, dotall) # {}}

P2At(text, s, dotall) ==
    {p \in (s + 1)..Len(text) :
        /\ DotStar(text, s + 1, p, dotall)
        /\ PctUnit(text, p).ok
        /\ OverAt(text, PctUnit(text, p).end, dotall) # {}}

P3At(text, s, dotall) ==
    {p \in (s + 1)..Len(text) : DotStar(text, s + 1, p, dotall) /\ PctUnit(text, p).ok}

BusyStarts(text) == {s \in 1..Len(text) : IsLit(text[s], "avg busy")}

NoGroups == [ok |-> FALSE, g1 |-> 0, g2 |-> 0, g3 |-> 0]

\* re.search of pattern 1: leftmost start, then each .* as long as possible
SearchP1(text, dotall) ==
    LET starts == {s \in BusyStarts(text) : P1At(text, s, dotall) # {}}
    IN  IF starts = {} THEN NoGroups
        ELSE LET b == PctUnit(text, Max(P1At(text, Min(starts), dotall)))
                 i == IdleUnit(text, Max(IdleAt(text, b.end, dotall)))
                 o == OverUnit(text, Max(OverAt(text, i.end, dotall)))
             IN  [ok |-> TRUE, g1 |-> b.g, g2 |-> i.g, g3 |-> o.g]

SearchP2(text, dotall) ==
    LET starts == {s \in BusyStarts(text) : P2At(text, s, dotall) # {}}
    IN  IF starts = {} THEN NoGroups
        ELSE LET b == PctUnit(text, Max(P2At(text, Min(starts), dotall)))
                 o == OverUnit(text, Max(OverAt(text, b.end, dotall)))
             IN  [ok |-> TRUE, g1 |-> b.g, g2 |-> o.g, g3 |-> 0]

SearchP3(text, dotall) ==
    LET starts == {s \in BusyStarts(text) : P3At(text, s, dotall) # {}}
    IN  IF starts = {} THEN NoGroups
        ELSE [ok |-> TRUE, g1 |-> PctUnit(text, Max(P3At(text, Min(starts), dotall))).g,
              g2 |-> 0, g3 |-> 0]

\* the idle-only pattern has no .* : the leftmost position where it matches
SearchP4(text) ==
    LET at == {p \in 1..Len(text) : IdleUnit(text, p).ok}
    IN  IF at = {} THEN NoGroups
        ELSE [ok |-> TRUE, g1 |-> IdleUnit(text, Min(at)).g, g2 |-> 0, g3 |-> 0]

\* round(x, 2) on a value in thousandths (ties to even)
Round2(x) ==
    LET q == x \div 10
        r == x % 10
    IN  IF r < 5 THEN q * 10
        ELSE IF r > 5 THEN (q + 1) * 10
        ELSE IF q % 2 = 0 THEN q * 10 ELSE (q + 1) * 10

NoCpu == [found |-> FALSE, busy |-> None, idle |-> None, samples |-> None]
CpuRec(b, i, s) == [found |-> TRUE, busy |-> b, idle |-> i, samples |-> s]

\* a wrong order of the busy patterns: the minimal pattern before pattern 2
BusyCascadeMinimalFirst(text, dotall23) ==
    LET m1 == SearchP1(text, TRUE)
        m2 == SearchP2(text, dotall23)
        m3 == SearchP3(text, dotall23)
    IN  IF m1.ok THEN CpuRec(Some(m1.g1), Some(m1.g2), Some(m1.g3))
        ELSE IF m3.ok THEN CpuRec(Some(m3.g1), None, None)
        ELSE IF m2.ok THEN CpuRec(Some(m2.g1), None, Some(m2.g2))
        ELSE NoCpu

\* the three busy patterns, tried in order (both variants)
BusyCascade(text, dotall23) ==
    LET m1 == SearchP1(text, TRUE)
        m2 == SearchP2(text, dotall23)
        m3 == SearchP3(text, dotall23)
    IN  IF m1.ok THEN CpuRec(Some(m1.g1), Some(m1.g2), Some(m1.g3))
        ELSE IF m2.ok THEN CpuRec(Some(m2.g1), None, Some(m2.g2))
        ELSE IF m3.ok THEN CpuRec(Some(m3.g1), None, None)
        ELSE NoCpu

\* analyze_results.py: every busy pattern with re.DOTALL; the idle-only
\* fallback leaves busy None
parse_avg_cpu_file_simple(text) ==
    LET c  == BusyCascade(text, TRUE)
        m4 == SearchP4(text)
    IN  IF c.found THEN c
        ELSE IF m4.ok THEN CpuRec(None, Some(m4.g1), None)
        ELSE NoCpu

\* analyze_results_report.py: patterns 2 and 3 without re.DOTALL; the
\* idle-only fallback derives busy = round(100.0 - idle, 2)
parse_avg_cpu_file_report(text) ==
    LET c  == BusyCascade(text, FALSE)
        m4 == SearchP4(text)
    IN  IF c.found THEN c
        ELSE IF m4.ok THEN CpuRec(Some(Round2(100000 - m4.g1)), Some(m4.g1), None)
        ELSE NoCpu

parse_avg_cpu_file(v, text) ==
    IF v = "simple" THEN parse_avg_cpu_file_simple(text)
    ELSE parse_avg_cpu_file_report(text)

(***************************************************************************)
(* Character strings (duration tokens, file and directory names) are        *)
(* sequences of one-character strings.                                      *)
(***************************************************************************)
Digits == {"0", "1", "2", "3", "4", "5", "6", "7", "8", "9"}

DigitVal(c) ==
    CASE c = "0" -> 0 [] c = "1" -> 1 [] c = "2" -> 2 [] c = "3" -> 3 [] c = "4" -> 4
      [] c = "5" -> 5 [] c = "6" -> 6 [] c = "7" -> 7 [] c = "8" -> 8 [] c = "9" -> 9

IsSpace(c) == c \in {" ", "\n", "\t"}

UpperCase == <<"A", "B", "C", "D", "E", "F", "G", "H", "I", "J", "K", "L", "M",
               "N", "O", "P", "Q", "R", "S", "T", "U", "V", "W", "X", "Y", "Z">>
LowerCase == <<"a", "b", "c", "d", "e", "f", "g", "h", "i", "j", "k", "l", "m",
               "n", "o", "p", "q", "r", "s", "t", "u", "v", "w", "x", "y", "z">>

LowerChar(c) ==
    IF \E i \in 1..Len(UpperCase) : UpperCase[i] = c
    THEN LowerCase[CHOOSE i \in 1..Len(UpperCase) : UpperCase[i] = c]
    ELSE c

\* str.lower()
LowerStr(s) == [i \in 1..Len(s) |-> LowerChar(s[i])]

\* str.strip()
RECURSIVE LStrip(_)
LStrip(s) == IF s # <<>> /\ IsSpace(Head(s)) THEN LStrip(Tail(s)) ELSE s

RECURSIVE RStrip(_)
RStrip(s) ==
    IF s # <<>> /\ IsSpace(s[Len(s)]) THEN RStrip(SubSeq(s, 1, Len(s) - 1)) ELSE s

Strip(s) == RStrip(LStrip(s))

\* [0-9]+ from position i: the position after the longest run of digits
RECURSIVE DigitRunEnd(_, _)
DigitRunEnd(s, i) ==
    IF i <= Len(s) /\ s[i] \in Digits THEN DigitRunEnd(s, i + 1) ELSE i

\* int() of the digits s[a..b-1]
RECURSIVE DigitsValue(_, _, _)
DigitsValue(s, a, b) ==
    IF b <= a THEN 0 ELSE DigitsValue(s, a, b - 1) * 10 + DigitVal(s[b - 1])

RECURSIVE Pow10(_)
Pow10(e) == IF e = 0 THEN 1 ELSE 10 * Pow10(e - 1)

\* A decimal value m * 10^-e, kept in lowest terms so that equal values are
\* equal records (float("5.50") = float("5.5")).
RECURSIVE Dec(_, _)
Dec(m, e) ==
    IF m = 0 THEN [m |-> 0, e |-> 0]
    ELSE IF e > 0 /\ m % 10 = 0 THEN Dec(m \div 10, e - 1)
    ELSE [m |-> m, e |-> e]

\* ([0-9]+(?:\.[0-9]+)?) matched at position i; end is the position after it
NumberAt(s, i) ==
    LET j == DigitRunEnd(s, i)
        k == DigitRunEnd(s, j + 1)
    IN  IF j = i THEN [ok |-> FALSE, end |-> i, val |-> Dec(0, 0)]
        ELSE IF j <= Len(s) /\ s[j] = "." /\ k > j + 1
        THEN [ok |-> TRUE, end |-> k,
              val |-> Dec(DigitsValue(s, i, j) * Pow10(k - (j + 1)) + DigitsValue(s, j + 1, k),
                          k - (j + 1))]
        ELSE [ok |-> TRUE, end |-> j, val |-> Dec(DigitsValue(s, i, j), 0)]

RECURSIVE SkipSpaces(_, _)
SkipSpaces(s, i) == IF i <= Len(s) /\ IsSpace(s[i]) THEN SkipSpaces(s, i + 1) ELSE i

\* s has the word w at position i (the letters compared as given, or without
\* regard to case under re.IGNORECASE)
HasAt(s, i, w, ignorecase) ==
    /\ i + Len(w) - 1 <= Len(s)
    /\ \A x \in 1..Len(w) :
          IF ignorecase THEN LowerChar(s[i + x - 1]) = LowerChar(w[x])
          ELSE s[i + x - 1] = w[x]

\* (ms|s|us)? at position i: the first alternative that matches, in lower case
UnitAt(s, i, ignorecase) ==
    IF HasAt(s, i, <<"m", "s">>, ignorecase) THEN "ms"
    ELSE IF HasAt(s, i, <<"s">>, ignorecase) THEN "s"
    ELSE IF HasAt(s, i, <<"u", "s">>, ignorecase) THEN "us"
    ELSE "s"

\* float(s) on a stripped string of digits, '.', sign and other characters
\* ("inf", "nan", exponents and digit-group underscores are outside the
\* alphabet of the inputs): [sign] digits [. [digits]]  or  [sign] . digits
PyFloat(s) ==
    LET signed == s # <<>> /\ s[1] \in {"-", "+"}
        a == IF signed THEN 2 ELSE 1
        j == DigitRunEnd(s, a)
        k == IF j <= Len(s) /\ s[j] = "." THEN DigitRunEnd(s, j + 1) ELSE j
        mag == Dec(DigitsValue(s, a, j) * Pow10(IF k > j THEN k - (j + 1) ELSE 0)
                      + (IF k > j THEN DigitsValue(s, j + 1, k) ELSE 0),
                   IF k > j THEN k - (j + 1) ELSE 0)
    IN  IF /\ k = Len(s) + 1
           /\ (j > a \/ k > j + 1)
        THEN [ok |-> TRUE,
              val |-> IF signed /\ s[1] = "-" THEN [m |-> 0 - mag.m, e |-> mag.e] ELSE mag]
        ELSE [ok |-> FALSE, val |-> Dec(0, 0)]

\* a wrong unit table: microseconds scaled like milliseconds
UnitShiftMicroAsMilli(unit) == IF unit \in {"ms", "us"} THEN 3 ELSE 0

\* val / 1000.0 and val / 1_000_000.0 move the decimal point by 3 and 6
UnitShift(unit) == IF unit = "ms" THEN 3 ELSE IF unit = "us" THEN 6 ELSE 0

\* the common tail of convert_to_seconds once s is prepared
ConvertPrepared(s, ignorecase) ==
    LET m    == NumberAt(s, 1)
        unit == UnitAt(s, SkipSpaces(s, m.end), ignorecase)
        f    == PyFloat(s)
    IN  IF ~m.ok
        THEN (IF f.ok THEN Some(f.val) ELSE None)
        ELSE Some(Dec(m.val.m, m.val.e + UnitShift(unit)))

\* val_str is [isNone |-> BOOLEAN, s |-> characters].
\* analyze_results.py: strip, match with re.IGNORECASE, lower the unit.
\* analyze_results_report.py: strip and lower the string, then match.
convert_to_seconds(v, val_str) ==
    IF val_str.isNone THEN None
    ELSE IF v = "simple" THEN ConvertPrepared(Strip(val_str.s), TRUE)
    ELSE ConvertPrepared(LowerStr(Strip(val_str.s)), FALSE)

Str(s) == [isNone |-> FALSE, s |-> s]
NoneStr == [isNone |-> TRUE, s |-> <<>>]

(***************************************************************************)
(* Python's re on character strings.  A pattern is a sequence of items:     *)
(*   Word(w, ci)       the literal w (ci: without regard to case)           *)
(*   Rep(c, min, max)  min to max characters of class c, as many as         *)
(*                     possible (greedy), giving back on failure            *)
(*   Star(c), Plus(c)  the same without an upper limit, from 0 and from 1   *)
(*   Open(g), Close(g) the bounds of capturing group g                      *)
(*   Opt(sub)          (?:sub)?  tried with sub first                       *)
(*   Alt(subs)         (?:a|b|c) tried in order                             *)
(*   Bol               ^ under re.MULTILINE                                 *)
(*   NotAfterDigit, NotBeforeDigit    (?<!\d) and (?!\d)                    *)
(* Match tries the alternatives in the order of the backtracking matcher    *)
(* and returns the first success.                                           *)
(***************************************************************************)
Word(w, ci) == [t |-> "word", w |-> w, ci |-> ci]
Rep(c, min, max) == [t |-> "rep", c |-> c, min |-> min, max |-> max, many |-> FALSE]
Star(c) == [t |-> "rep", c |-> c, min |-> 0, max |-> 0, many |-> TRUE]
Plus(c) == [t |-> "rep", c |-> c, min |-> 1, max |-> 0, many |-> TRUE]
Open(g) == [t |-> "open", g |-> g]
Close(g) == [t |-> "close", g |-> g]
Opt(sub) == [t |-> "opt", sub |-> sub]
Alt(subs) == [t |-> "alt", subs |-> subs]
Bol == [t |-> "bol"]
NotAfterDigit == [t |-> "nad"]
NotBeforeDigit == [t |-> "nbd"]

WordChars == Digits \cup Range(UpperCase) \cup Range(LowerCase) \cup {"_"}

InClass(ch, c) ==
    CASE c = "\\s"   -> IsSpace(ch)
      [] c = "\\d"   -> ch \in Digits
      [] c = "[^\\d]" -> ch \notin Digits
      [] c = "[^\\n]" -> ch # "\n"
      [] c = "\\w"   -> ch \in WordChars

\* how many characters of class c stand at pos, at most max
RECURSIVE RunLen(_, _, _, _)
RunLen(text, pos, c, max) ==
    LET left  == IF pos > Len(text) THEN 0 ELSE Len(text) - pos + 1
        lim   == IF max < left THEN max ELSE left
        stops == {i \in 0..(lim - 1) : ~InClass(text[pos + i], c)}
    IN  IF stops = {} THEN lim ELSE Min(stops)

NoCaps == [g \in 1..3 |-> <<0, 0>>]
MatchFail == [ok |-> FALSE, end |-> 0, caps |-> NoCaps]

RECURSIVE Match(_, _, _, _)
RECURSIVE MatchRep(_, _, _, _, _, _)
RECURSIVE MatchAlt(_, _, _, _, _, _)

Match(pat, text, pos, caps) ==
    IF Len(pat) = 0 THEN [ok |-> TRUE, end |-> pos, caps |-> caps]
    ELSE LET h == Head(pat)
             r == Tail(pat)
         IN  CASE h.t = "word" ->
                    IF HasAt(text, pos, h.w, h.ci)
                    THEN Match(r, text, pos + Len(h.w), caps) ELSE MatchFail
               [] h.t = "rep" ->
                    MatchRep(r, text, pos,
                             RunLen(text, pos, h.c, IF h.many THEN Len(text) ELSE h.max),
                             h.min, caps)
               [] h.t = "open" ->
                    Match(r, text, pos, [caps EXCEPT ![h.g] = <<pos, pos>>])
               [] h.t = "close" ->
                    Match(r, text, pos, [caps EXCEPT ![h.g] = <<caps[h.g][1], pos>>])
               [] h.t = "opt" ->
                    LET with == Match(h.sub \o r, text, pos, caps)
                    IN  IF with.ok THEN with ELSE Match(r, text, pos, caps)
               [] h.t = "alt" -> MatchAlt(h.subs, 1, r, text, pos, caps)
               [] h.t = "bol" ->
                    IF pos = 1 \/ text[pos - 1] = "\n"
                    THEN Match(r, text, pos, caps) ELSE MatchFail
               [] h.t = "nad" ->
                    IF pos > 1 /\ text[pos - 1] \in Digits
                    THEN MatchFail ELSE Match(r, text, pos, caps)
               [] h.t = "nbd" ->
                    IF pos <= Len(text) /\ text[pos] \in Digits
                    THEN MatchFail ELSE Match(r, text, pos, caps)

\* a greedy repetition: k characters first, then fewer, down to min
MatchRep(r, text, pos, k, min, caps) ==
    IF k < min THEN MatchFail
    ELSE IF k = min THEN Match(r, text, pos + k, caps)
    ELSE LET a == MatchRep(r, text, pos, k, ((min + k) \div 2) + 1, caps)
         IN  IF a.ok THEN a ELSE MatchRep(r, text, pos, (min + k) \div 2, min, caps)

MatchAlt(subs, i, r, text, pos, caps) ==
    IF i > Len(subs) THEN MatchFail
    ELSE LET a == Match(subs[i] \o r, text, pos, caps)
         IN  IF a.ok THEN a ELSE MatchAlt(subs, i + 1, r, text, pos, caps)

\* re.search: the match at the leftmost position that has one
RECURSIVE SearchFrom(_, _, _, _)
SearchFrom(pat, text, pos, last) ==
    IF pos > last THEN MatchFail
    ELSE IF pos = last THEN Match(pat, text, pos, NoCaps)
    ELSE LET a == SearchFrom(pat, text, pos, (pos + last) \div 2)
         IN  IF a.ok THEN a ELSE SearchFrom(pat, text, ((pos + last) \div 2) + 1, last)

Search(pat, text) == SearchFrom(pat, text, 1, Len(text) + 1)

\* m.group(g) of a successful match
Group(text, m, g) == SubSeq(text, m.caps[g][1], m.caps[g][2] - 1)

\* ([0-9]+(?:\.[0-9]+)?) as group g
ReNumber(g) ==
    <<Open(g), Plus("\\d"), Opt(<<Word(<<".">>, FALSE), Plus("\\d")>>), Close(g)>>

\* ([0-9]+(?:\.[0-9]+)?\s*(?:ms|s|us)?) as group g, under re.IGNORECASE
ReDuration(g) ==
    <<Open(g), Plus("\\d"), Opt(<<Word(<<".">>, FALSE), Plus("\\d")>>),
      Star("\\s"),
      Opt(<<Alt(<< <<Word(<<"m", "s">>, TRUE)>>, <<Word(<<"s">>, TRUE)>>,
                   <<Word(<<"u", "s">>, TRUE)>> >>)>>),
      Close(g)>>

(***************************************************************************)
(* parse_wrk_file: the metrics of one load-test log, by variant.            *)
(***************************************************************************)
W_REQUESTS == <<"R", "e", "q", "u", "e", "s", "t", "s", "/", "s", "e", "c", ":">>
W_TRANSFER == <<"T", "r", "a", "n", "s", "f", "e", "r", "/", "s", "e", "c", ":">>
W_SOCKET == <<"S", "o", "c", "k", "e", "t", " ", "e", "r", "r", "o", "r", "s", ":">>

\* Requests/sec:\s*([0-9]+(?:\.[0-9]+)?)
ReRequests == <<Word(W_REQUESTS, FALSE), Star("\\s")>> \o ReNumber(1)

\* Transfer/sec:\s*([0-9]+(?:\.[0-9]+)?)(\w+)?
ReTransfer ==
    <<Word(W_TRANSFER, FALSE), Star("\\s")>> \o ReNumber(1)
        \o <<Opt(<<Open(2), Plus("\\w"), Close(2)>>)>>

\* ^\s*NN%\s+(duration)   with re.MULTILINE | re.IGNORECASE
RePercLine(perc) ==
    <<Bol, Star("\\s"), Word(perc \o <<"%">>, TRUE), Plus("\\s")>>
        \o ReDuration(1)

\* 50%[^\d]*(duration)[^\n]*75%[^\d]*(duration)[^\n]*90%[^\d]*(duration)
ReInline ==
    <<Word(<<"5", "0", "%">>, TRUE), Star("[^\\d]")>> \o ReDuration(1)
        \o <<Star("[^\\n]"), Word(<<"7", "5", "%">>, TRUE), Star("[^\\d]")>>
        \o ReDuration(2)
        \o <<Star("[^\\n]"), Word(<<"9", "0", "%">>, TRUE), Star("[^\\d]")>>
        \o ReDuration(3)

\* 99%[^\d]*(duration)   (analyze_results.py only)
Re99 == <<Word(<<"9", "9", "%">>, TRUE), Star("[^\\d]")>> \o ReDuration(1)

\* Socket errors:[^\n]*   (analyze_results.py, the whole match)
ReSocketSimple == <<Open(1), Word(W_SOCKET, FALSE), Star("[^\\n]"), Close(1)>>

\* Socket errors:\s*([^\n]+)   (analyze_results_report.py)
ReSocketReport ==
    <<Word(W_SOCKET, FALSE), Star("\\s"), Open(1), Plus("[^\\n]"), Close(1)>>

\* the transfer rate in KB: a unit of mb or m multiplies by 1024.0
TransferKB(val, unit) ==
    IF LowerStr(unit) \in {<<"m", "b">>, <<"m">>} THEN Dec(val.m * 1024, val.e) ELSE val

NoWrk ==
    [requests_per_sec |-> None, p50 |-> None, p75 |-> None, p90 |-> None, p99 |-> None,
     socket_errors |-> None, transfer_per_sec |-> None, raw_errors |-> None]

\* The dictionary returned for a log text.  The keys a variant does not have
\* (transfer_per_sec and socket_errors in analyze_results.py, raw_errors in
\* analyze_results_report.py) stay None.
parse_wrk_file(v, text) ==
    LET m      == Search(ReRequests, text)
        m2     == Search(ReTransfer, text)
        inline == Search(ReInline, text)
        m99    == Search(Re99, text)
        m_err  == Search(IF v = "simple" THEN ReSocketSimple ELSE ReSocketReport, text)
        secs(mt, g) == convert_to_seconds(v, Str(Group(text, mt, g)))
        line(perc) == LET mm == Search(RePercLine(perc), text)
                      IN  IF mm.ok THEN secs(mm, 1) ELSE None
    IN  [requests_per_sec |-> IF m.ok THEN Some(PyFloat(Group(text, m, 1)).val) ELSE None,
         p50 |-> IF inline.ok THEN secs(inline, 1) ELSE line(<<"5", "0">>),
         p75 |-> IF inline.ok THEN secs(inline, 2) ELSE line(<<"7", "5">>),
         p90 |-> IF inline.ok THEN secs(inline, 3) ELSE line(<<"9", "0">>),
         p99 |-> IF v = "simple" /\ m99.ok THEN secs(m99, 1) ELSE line(<<"9", "9">>),
         socket_errors |-> IF v = "report" /\ m_err.ok
                           THEN Some(Strip(Group(text, m_err, 1))) ELSE None,
         transfer_per_sec |-> IF v = "report" /\ m2.ok
                              THEN Some(TransferKB(PyFloat(Group(text, m2, 1)).val,
                                                   Group(text, m2, 2)))
                              ELSE None,
         raw_errors |-> IF v = "simple" /\ m_err.ok
                        THEN Some(Strip(Group(text, m_err, 1))) ELSE None]

(***************************************************************************)
(* Scenario descriptions (analyze_results_report.py).  Names are character  *)
(* strings; a description is a sequence of pieces, each a fixed phrase of   *)
(* the program or raw characters taken from the name.  The French sentences *)
(* are written without their accents and arrows.                            *)
(***************************************************************************)
Phrase(s) == [k |-> "phrase", s |-> s, c |-> <<>>]
Raw(c) == [k |-> "raw", s |-> "", c |-> c]

N_INJ_IPS_WAF_WEB == <<"I", "N", "J", "_", "I", "P", "S", "_", "W", "A", "F", "_", "W", "E", "B">>
N_INJ_IPS_WEB_NO_PROXY == <<"I", "N", "J", "_", "I", "P", "S", "_", "W", "E", "B", "_", "N", "O", "_", "P", "R", "O", "X", "Y">>
N_INJ_IPS_WEB_PROXY == <<"I", "N", "J", "_", "I", "P", "S", "_", "W", "E", "B", "_", "P", "R", "O", "X", "Y">>
N_INJ_NFQ_WAF_WEB == <<"I", "N", "J", "_", "N", "F", "Q", "_", "W", "A", "F", "_", "W", "E", "B">>
N_INJ_WAF_WEB == <<"I", "N", "J", "_", "W", "A", "F", "_", "W", "E", "B">>
N_INJ_WEB == <<"I", "N", "J", "_", "W", "E", "B">>
N_INJ_WEB_PROXY == <<"I", "N", "J", "_", "W", "E", "B", "_", "P", "R", "O", "X", "Y">>
N_NO_INJECTION == <<"N", "O", " ", "I", "N", "J", "E", "C", "T", "I", "O", "N">>

SCENARIO_DESCRIPTIONS ==
       N_INJ_IPS_WAF_WEB :> "Injector -> IPS (Suricata) actif -> WAF (proxy Apache avec ModSecurity) actif -> Backend web. Test complet avec IDS/IPS et WAF inline."
    @@ N_INJ_IPS_WEB_NO_PROXY :> "Injector -> IPS actif -> connexion directe vers le Backend (pas de proxy WAF). Permet mesurer l'impact de l'IPS seul."
    @@ N_INJ_IPS_WEB_PROXY :> "Injector -> IPS actif -> WAF machine en mode proxy (sans ModSecurity active) -> Backend. Mesure l'overhead du proxy seul avec IPS."
    @@ N_INJ_NFQ_WAF_WEB :> "Injector -> NFQUEUE present mais Suricata pas en mode bloquant (ou acceptant) -> WAF actif -> Backend. Test du cas ou NFQUEUE est installe mais trafic accepte."
    @@ N_INJ_WAF_WEB :> "Injector -> Pas d'IPS -> WAF (proxy + ModSecurity) actif -> Backend. Mesure l'impact du WAF seul."
    @@ N_INJ_WEB :> "Injector -> Pas d'IPS -> Pas de proxy (acces direct au Backend). Mesures baseline sans WAF ni proxy ni IPS."
    @@ N_INJ_WEB_PROXY :> "Injector -> Pas d'IPS -> Proxy (WAF machine en tant que reverse-proxy, ModSecurity desactive) -> Backend. Test proxy sans fonctionnalites WAF."
    @@ N_NO_INJECTION :> "Tests sans trafic d'injection (controles ou mesures a vide)."

\* str.split(sep): the pieces between the occurrences of the separator
RECURSIVE SplitFrom(_, _, _, _)
SplitFrom(s, sep, i, cur) ==
    IF i > Len(s) THEN <<cur>>
    ELSE IF s[i] = sep THEN <<cur>> \o SplitFrom(s, sep, i + 1, <<>>)
    ELSE SplitFrom(s, sep, i + 1, Append(cur, s[i]))

Split(s, sep) == SplitFrom(s, sep, 1, <<>>)

StartsWith(s, w) == HasAt(s, 1, w, FALSE)

\* a tokens-only test for INJ, without the name.startswith('INJ') alternative
HasInjTokenOnly(name, parts) == <<"I", "N", "J">> \in parts

HasInj(name, parts) == <<"I", "N", "J">> \in parts \/ StartsWith(name, <<"I", "N", "J">>)

\* " -- ".join(desc)
RECURSIVE JoinPhrases(_)
JoinPhrases(desc) ==
    IF desc = <<>> THEN <<>>
    ELSE IF Len(desc) = 1 THEN <<Phrase(desc[1])>>
    ELSE <<Phrase(desc[1]), Phrase(" -- ")>> \o JoinPhrases(Tail(desc))

describe_scenario(name) ==
    LET parts == Range(Split(name, "_"))
        desc  ==
            (IF HasInj(name, parts) THEN <<"Injection depuis Injector">> ELSE <<>>)
         \o (IF <<"I", "P", "S">> \in parts THEN <<"IPS (Suricata) actif">> ELSE <<>>)
         \o (IF <<"N", "F", "Q">> \in parts THEN <<"NFQUEUE present">> ELSE <<>>)
         \o (IF <<"W", "A", "F">> \in parts THEN <<"WAF (proxy / ModSecurity) actif">> ELSE <<>>)
         \o (IF <<"W", "E", "B">> \in parts \/ <<"B", "A", "C", "K", "E", "N", "D">> \in parts
             THEN <<"Backend web present">> ELSE <<>>)
         \o (IF \/ <<"P", "R", "O", "X", "Y">> \in parts
                \/ <<"N", "O", "_", "P", "R", "O", "X", "Y">> \in parts
                \/ <<"N", "O">> \in parts
             THEN (IF <<"N", "O">> \in parts \/ <<"N", "O", "_", "P", "R", "O", "X", "Y">> \in parts
                   THEN <<"acces direct au backend (pas de proxy)">>
                   ELSE <<"reverse-proxy en place">>)
             ELSE <<>>)
    IN  IF name \in DOMAIN SCENARIO_DESCRIPTIONS THEN <<Phrase(SCENARIO_DESCRIPTIONS[name])>>
        ELSE IF desc = <<>> THEN <<Phrase("Scenario non documente -- nom brut: "), Raw(name)>>
        ELSE JoinPhrases(desc)

\* SCENARIO_DESCRIPTIONS.get(scenario, describe_scenario(scenario))
ScenarioDesc(scenario) ==
    IF scenario \in DOMAIN SCENARIO_DESCRIPTIONS THEN <<Phrase(SCENARIO_DESCRIPTIONS[scenario])>>
    ELSE describe_scenario(scenario)

\* ======================== specifications and claims ========================

(***************************************************************************)
(* Specification SpecOrder: custom_order applied to every small table.      *)
(***************************************************************************)
MaxRows == 3

OrderScenarios == {NO_INJECTION, N_INJ_WEB}
\* concurrency column after pd.to_numeric: a number or NaN
OrderConcurrencies == {Some(300), Some(500), Some(1000), Some(200), None}

OrderTables ==
    {[i \in 1..Len(t) |-> [idx |-> i - 1, scenario |-> t[i][1], concurrency |-> t[i][2]]] :
        t \in SeqsUpTo(OrderScenarios \X OrderConcurrencies, MaxRows)}

InitOrder ==
    /\ variant = "report"
    /\ pc = "custom_order"
    /\ arg \in OrderTables
    /\ res = <<>>
    /\ NoMain

CallCustomOrder ==
    /\ pc = "custom_order"
    /\ res' = custom_order(arg)
    /\ pc' = "ordered"
    /\ UNCHANGED <<variant, arg>>
    /\ UNCHANGED pipe

NextOrder == CallCustomOrder

SpecOrder == InitOrder /\ [][NextOrder]_vars

\* The rank of the display bucket a row belongs to.
BucketRank(r) ==
    IF r.scenario = NO_INJECTION THEN 0
    ELSE IF r.concurrency = Some(300) THEN 1
    ELSE IF r.concurrency = Some(500) THEN 2
    ELSE IF r.concurrency = Some(1000) THEN 3
    ELSE 4

\* C1: custom_order returns a stable partition of the table: the rows of
\* "NO INJECTION" first, then the other rows at concurrency 300, 500, 1000,
\* then the remaining rows; every input row appears exactly once and rows of
\* the same bucket keep their input order.
C1_StablePartition ==
    pc = "ordered" =>
        /\ Len(res) = Len(arg)
        /\ \A i \in 1..Len(arg) : \E j \in 1..Len(res) : res[j] = arg[i]
        /\ \A i, j \in 1..Len(res) :
              i < j =>
                 /\ BucketRank(res[i]) <= BucketRank(res[j])
                 /\ BucketRank(res[i]) = BucketRank(res[j]) => res[i].idx < res[j].idx

\* A table whose rows arrive in reverse bucket order (a row at 1000, a row at
\* 300, a "NO INJECTION" row at 500) has been ordered.
C1_Witness ==
    /\ pc = "ordered"
    /\ Len(arg) = 3
    /\ arg[1].scenario # NO_INJECTION /\ arg[1].concurrency = Some(1000)
    /\ arg[2].scenario # NO_INJECTION /\ arg[2].concurrency = Some(300)
    /\ arg[3].scenario = NO_INJECTION /\ arg[3].concurrency = Some(500)
    /\ res = <<arg[3], arg[2], arg[1]>>

(***************************************************************************)
(* Specification SpecCpu: parse_avg_cpu_file of both variants applied to    *)
(* every text made of at most MaxFrags fragments of CPU-log material.       *)
(***************************************************************************)
MaxFrags == 4

FBusy(n)  == <<Lit("AVG busy"), Lit("="), n, Lit("%")>>
FIdle(n)  == <<Lit("avg idle"), Lit("="), n, Lit("%")>>
FOver(n)  == <<Lit("over"), n, Lit("samples")>>

CpuFragments ==
    { FBusy(Num(11750, TRUE)),                                   \* AVG busy = 11.75 %
      <<Lit("AVG busy"), NL, Lit("="), NL, Num(22500, TRUE), NL, Lit("%")>>,
      FIdle(Num(88250, TRUE)),                                   \* avg idle = 88.25 %
      <<Lit("Avg Idle"), Lit("="), Num(99999, TRUE), Lit("%")>>, \* Avg Idle = 99.999 %
      FOver(Num(1990000, FALSE)),                                \* over 1990 samples
      <<Lit("OVER"), NL, Num(7000, FALSE), NL, Lit("samples")>>, \* OVER 7 samples
      FOver(Num(12500, TRUE)),                                   \* over 12.5 samples
      <<NL>>,
      <<Lit("x")>> }

CpuTexts == {Concat(fs) : fs \in SeqsUpTo(CpuFragments, MaxFrags)}

InitCpu ==
    /\ variant \in Variants
    /\ pc = "parse_avg_cpu_file"
    /\ arg \in CpuTexts
    /\ res = NoCpu
    /\ NoMain

CallParseCpu ==
    /\ pc = "parse_avg_cpu_file"
    /\ res' = parse_avg_cpu_file(variant, arg)
    /\ pc' = "parsed"
    /\ UNCHANGED <<variant, arg>>
    /\ UNCHANGED pipe

NextCpu == CallParseCpu

SpecCpu == InitCpu /\ [][NextCpu]_vars

\* The lexemes pattern 1 is made of; anything else is noise.
IsPatternLexeme(t) ==
    \/ t.k = "num"
    \/ Lower(t.s) \in {"avg busy", "=", "%", "avg idle", "over", "samples"}

NoiseOnly(text, a, b) == \A x \in a..(b - 1) : ~IsPatternLexeme(text[x])

\* The (B, I, S) of the occurrences of pattern 1 in the text:
\* "AVG busy <noise> = B % <noise> avg idle = I % <noise> over S samples".
OccOver(text, b, i, e) ==
    {<<b, i, OverUnit(text, p).g>> :
        p \in {p \in e..Len(text) : NoiseOnly(text, e, p) /\ OverUnit(text, p).ok}}

OccIdle(text, b, e) ==
    UNION {OccOver(text, b, IdleUnit(text, p).g, IdleUnit(text, p).end) :
        p \in {p \in e..Len(text) : NoiseOnly(text, e, p) /\ IdleUnit(text, p).ok}}

OccBusy(text, s) ==
    UNION {OccIdle(text, PctUnit(text, p).g, PctUnit(text, p).end) :
        p \in {p \in (s + 1)..Len(text) : NoiseOnly(text, s + 1, p) /\ PctUnit(text, p).ok}}

Occurrences(text) == UNION {OccBusy(text, s) : s \in BusyStarts(text)}

\* C4: for every text that contains an occurrence of pattern 1,
\* parse_avg_cpu_file returns the busy, idle and sample count of an
\* occurrence, whatever noise and line breaks surround it.
C4_RecoversOccurrence ==
    (pc = "parsed" /\ Occurrences(arg) # {}) =>
        /\ res.found
        /\ ~res.busy.absent /\ ~res.idle.absent /\ ~res.samples.absent
        /\ <<res.busy.v, res.idle.v, res.samples.v>> \in Occurrences(arg)

\* C8: when only the idle percentage is found (patterns 1-3 fail, the
\* idle-only fallback matches), the record has busy = 100 - idle (rounded to
\* two decimals or not), idle = I and no sample count.
C8_IdleOnlyDerivesBusy ==
    (/\ pc = "parsed"
     /\ ~BusyCascade(arg, variant = "simple").found
     /\ SearchP4(arg).ok) =>
        /\ res.found
        /\ res.idle = Some(SearchP4(arg).g1)
        /\ res.samples = None
        /\ res.busy \in {Some(100000 - SearchP4(arg).g1),
                         Some(Round2(100000 - SearchP4(arg).g1))}

\* whether pattern n (1 busy+idle+samples, 2 busy+samples, 3 busy only,
\* 4 idle only) of the variant matches somewhere in the text
PatternMatches(v, n, text) ==
    CASE n = 1 -> SearchP1(text, TRUE).ok
      [] n = 2 -> SearchP2(text, v = "simple").ok
      [] n = 3 -> SearchP3(text, v = "simple").ok
      [] OTHER -> SearchP4(text).ok

\* the first pattern that matches, 0 if none does
FirstPattern(v, text) ==
    IF \E n \in 1..4 : PatternMatches(v, n, text)
    THEN Min({n \in 1..4 : PatternMatches(v, n, text)})
    ELSE 0

\* C13: parse_avg_cpu_file returns None exactly when none of the four
\* patterns matches, and otherwise the record of the first pattern that
\* matches: busy, idle and samples for pattern 1; busy and samples, no idle,
\* for pattern 2; busy alone for pattern 3; the idle of pattern 4, without
\* samples, when it is the only one.
C13_FirstPatternWins ==
    pc = "parsed" =>
        /\ res.found <=> FirstPattern(variant, arg) # 0
        /\ FirstPattern(variant, arg) = 1 =>
              /\ res.busy = Some(SearchP1(arg, TRUE).g1)
              /\ res.idle = Some(SearchP1(arg, TRUE).g2)
              /\ res.samples = Some(SearchP1(arg, TRUE).g3)
        /\ FirstPattern(variant, arg) = 2 =>
              /\ res.busy = Some(SearchP2(arg, variant = "simple").g1)
              /\ res.idle = None
              /\ res.samples = Some(SearchP2(arg, variant = "simple").g2)
        /\ FirstPattern(variant, arg) = 3 =>
              /\ res.busy = Some(SearchP3(arg, variant = "simple").g1)
              /\ res.idle = None
              /\ res.samples = None
        /\ FirstPattern(variant, arg) = 4 =>
              /\ res.idle = Some(SearchP4(arg).g1)
              /\ res.samples = None

\* pattern 1 fails on a text where patterns 2, 3 and 4 all match, and the
\* record is the one of pattern 2
C13_Witness ==
    /\ pc = "parsed"
    /\ FirstPattern(variant, arg) = 2
    /\ PatternMatches(variant, 3, arg) /\ PatternMatches(variant, 4, arg)
    /\ ~res.samples.absent /\ res.idle.absent

(***************************************************************************)
(* Specification SpecSec: convert_to_seconds of both variants applied to    *)
(* None, to every duration token  <blank?><number><blank?><unit?><blank?>   *)
(* of the catalogue and to every string of at most MaxStrLen characters.    *)
(***************************************************************************)
MaxStrLen == 3

SecAlphabet == {"5", ".", "m", "s", "u", "-", " ", "x"}

\* the written integer and fraction parts with the value they denote
SecIntParts == {[txt |-> <<"5">>, val |-> 5],
                [txt |-> <<"6", "5">>, val |-> 65],
                [txt |-> <<"2", "0", "0">>, val |-> 200]}
SecFracParts == {[txt |-> <<>>, val |-> 0, digits |-> 0],
                 [txt |-> <<".", "5">>, val |-> 5, digits |-> 1],
                 [txt |-> <<".", "5", "4">>, val |-> 54, digits |-> 2]}
SecUnits == {[txt |-> <<>>, unit |-> ""],
             [txt |-> <<"m", "s">>, unit |-> "ms"],
             [txt |-> <<"M", "s">>, unit |-> "ms"],
             [txt |-> <<"s">>, unit |-> "s"],
             [txt |-> <<"S">>, unit |-> "s"],
             [txt |-> <<"u", "s">>, unit |-> "us"],
             [txt |-> <<"U", "S">>, unit |-> "us"]}
SecBlanks == {<<>>, <<" ">>}

SecDurations ==
    {[isNone |-> FALSE,
      s      |-> q[1] \o q[2].txt \o q[3].txt \o q[4] \o q[5].txt \o q[6],
      kind   |-> "duration",
      number |-> Dec(q[2].val * Pow10(q[3].digits) + q[3].val, q[3].digits),
      unit   |-> q[5].unit] :
        q \in SecBlanks \X SecIntParts \X SecFracParts \X SecBlanks \X SecUnits
              \X (SecBlanks \cup {<<"\n">>})}

SecFree ==
    {[isNone |-> FALSE, s |-> t, kind |-> "free", number |-> Dec(0, 0), unit |-> ""] :
        t \in SeqsUpTo(SecAlphabet, MaxStrLen)}

SecNone == [isNone |-> TRUE, s |-> <<>>, kind |-> "none", number |-> Dec(0, 0), unit |-> ""]

InitSec ==
    /\ variant \in Variants
    /\ pc = "convert_to_seconds"
    /\ arg \in SecDurations \cup SecFree \cup {SecNone}
    /\ res = None
    /\ NoMain

CallConvertToSeconds ==
    /\ pc = "convert_to_seconds"
    /\ res' = convert_to_seconds(variant, arg)
    /\ pc' = "converted"
    /\ UNCHANGED <<variant, arg>>
    /\ UNCHANGED pipe

NextSec == CallConvertToSeconds

SpecSec == InitSec /\ [][NextSec]_vars

\* C5: convert_to_seconds returns the number of a duration token divided by
\* 1000 for ms, by 1,000,000 for us and unchanged for s or no unit, whatever
\* the case of the unit and the blanks around the token; None, and every
\* text with no numeric prefix that float() does not parse (the empty string
\* included), give the absent value.
C5_ConvertToSeconds ==
    pc = "converted" =>
        /\ arg.kind = "duration" =>
              res = Some(Dec(arg.number.m,
                             arg.number.e + (CASE arg.unit = "ms" -> 3
                                               [] arg.unit = "us" -> 6
                                               [] OTHER -> 0)))
        /\ arg.kind = "none" => res = None
        /\ (/\ arg.kind = "free"
            /\ (Strip(arg.s) = <<>> \/ Head(Strip(arg.s)) \notin Digits)
            /\ ~PyFloat(Strip(arg.s)).ok) => res = None

\* "200us" (0.0002 s), "65.54ms" written " 65.54 Ms" (0.06554 s) have been
\* converted; this one is the microsecond case.
C5_Witness ==
    /\ pc = "converted"
    /\ arg.kind = "duration"
    /\ arg.s = <<"2", "0", "0", "u", "s">>
    /\ res = Some([m |-> 2, e |-> 4])

(***************************************************************************)
(* Specification SpecDesc: the description of every scenario name made of   *)
(* one to MaxTokens underscore-separated tokens, and of "NO INJECTION".     *)
(***************************************************************************)
MaxTokens == 3

TokenChars ==
       "INJ" :> <<"I", "N", "J">>
    @@ "IPS" :> <<"I", "P", "S">>
    @@ "NFQ" :> <<"N", "F", "Q">>
    @@ "WAF" :> <<"W", "A", "F">>
    @@ "WEB" :> <<"W", "E", "B">>
    @@ "BACKEND" :> <<"B", "A", "C", "K", "E", "N", "D">>
    @@ "PROXY" :> <<"P", "R", "O", "X", "Y">>
    @@ "NO" :> <<"N", "O">>
    @@ "FOO" :> <<"F", "O", "O">>
    @@ "INJX" :> <<"I", "N", "J", "X">>
    @@ "inj" :> <<"i", "n", "j">>

RECURSIVE JoinTokens(_)
JoinTokens(ts) ==
    IF Len(ts) = 1 THEN TokenChars[ts[1]]
    ELSE TokenChars[ts[1]] \o <<"_">> \o JoinTokens(Tail(ts))

DescNames ==
    {[name |-> JoinTokens(ts), tokens |-> ts] :
        ts \in SeqsUpTo(DOMAIN TokenChars, MaxTokens) \ {<<>>}}
    \cup {[name |-> N_NO_INJECTION, tokens |-> <<"NO INJECTION">>]}

InitDesc ==
    /\ variant = "report"
    /\ pc = "describe_scenario"
    /\ arg \in DescNames
    /\ res = <<>>
    /\ NoMain

CallDescribe ==
    /\ pc = "describe_scenario"
    /\ res' = ScenarioDesc(arg.name)
    /\ pc' = "described"
    /\ UNCHANGED <<variant, arg>>
    /\ UNCHANGED pipe

NextDesc == CallDescribe

SpecDesc == InitDesc /\ [][NextDesc]_vars

\* The phrases the claim attaches to the tokens of a name, in the order
\* INJ, IPS, NFQ, WAF, WEB/BACKEND, PROXY/NO; inj says whether the INJ phrase
\* is due.
ClaimedPhrases(toks, inj) ==
       (IF inj THEN <<"Injection depuis Injector">> ELSE <<>>)
    \o (IF "IPS" \in toks THEN <<"IPS (Suricata) actif">> ELSE <<>>)
    \o (IF "NFQ" \in toks THEN <<"NFQUEUE present">> ELSE <<>>)
    \o (IF "WAF" \in toks THEN <<"WAF (proxy / ModSecurity) actif">> ELSE <<>>)
    \o (IF "WEB" \in toks \/ "BACKEND" \in toks THEN <<"Backend web present">> ELSE <<>>)
    \o (IF "NO" \in toks THEN <<"acces direct au backend (pas de proxy)">>
        ELSE IF "PROXY" \in toks THEN <<"reverse-proxy en place">>
        ELSE <<>>)

\* The description is the catalogue sentence for a catalogue name; otherwise
\* the claimed phrases joined by " -- ", or the "undocumented" text followed
\* by the raw name when no phrase is due.
DescribedAsClaimed(inj) ==
    LET want == ClaimedPhrases(Range(arg.tokens), inj)
    IN  IF arg.name \in DOMAIN SCENARIO_DESCRIPTIONS
        THEN res = <<Phrase(SCENARIO_DESCRIPTIONS[arg.name])>>
        ELSE IF want = <<>>
        THEN res = <<Phrase("Scenario non documente -- nom brut: "), Raw(arg.name)>>
        ELSE /\ Len(res) = 2 * Len(want) - 1
             /\ \A i \in 1..Len(res) :
                   res[i] = IF i % 2 = 1 THEN Phrase(want[(i + 1) \div 2]) ELSE Phrase(" -- ")

\* C6 as stated: a name outside the catalogue gets exactly the phrases of
\* the known tokens it contains; the INJ phrase appears only with the token
\* INJ, and a name with no known token gets the "undocumented" text.
C6_AsStated ==
    pc = "described" => DescribedAsClaimed("INJ" \in Range(arg.tokens))

\* C6 (amended): as stated, except that the INJ phrase is due when the name
\* has the token INJ or merely starts with the letters "INJ".
C6_Describe ==
    pc = "described" =>
        DescribedAsClaimed("INJ" \in Range(arg.tokens) \/ arg.tokens[1] \in {"INJ", "INJX"})

\* "INJ_FOO_BAR"-like: an unknown name with the token INJ and no IPS/WAF
\* token has been described by the INJ phrase alone.
C6_Witness ==
    /\ pc = "described"
    /\ arg.tokens = <<"INJ", "FOO", "FOO">>
    /\ res = <<Phrase("Injection depuis Injector")>>

(***************************************************************************)
(* Specification SpecWrk: parse_wrk_file of both variants applied to every  *)
(* text of at most MaxLines lines of load-test report material.             *)
(***************************************************************************)
MaxLines == 3

\* a per-line percentile
L_P50 == <<"5", "0", "%", " ", "1", "m", "s", "\n">>
L_P75 == <<"7", "5", "%", " ", "9", "m", "s", "\n">>
L_P90 == <<"9", "0", "%", " ", "2", "s", "\n">>
L_P99 == <<"9", "9", "%", " ", "3", "s", "\n">>
\* the three percentiles on one line, not at its start
L_INLINE == <<"x", "5", "0", "%", " ", "2", "s", "7", "5", "%", " ", "3", "s", "9", "0", "%", " ", "4", "s", "\n">>
\* a figure that ends in 99%
L_FIGURE == <<"a", "t", " ", "7", "5", ".", "9", "9", "%", " ", "5", "u", "s", "\n">>
L_REQUESTS == <<"R", "e", "q", "u", "e", "s", "t", "s", "/", "s", "e", "c", ":", " ", "9", "\n">>
L_SOCKET == <<"S", "o", "c", "k", "e", "t", " ", "e", "r", "r", "o", "r", "s", ":", " ", "r", " ", "5", "\n">>

WrkLines == {L_P50, L_P75, L_P90, L_P99, L_INLINE, L_FIGURE, L_REQUESTS, L_SOCKET}

WrkTexts == {Concat(ls) : ls \in SeqsUpTo(WrkLines, MaxLines)}

InitWrk ==
    /\ variant \in Variants
    /\ pc = "parse_wrk_file"
    /\ arg \in WrkTexts
    /\ res = NoWrk
    /\ NoMain

CallParseWrk ==
    /\ pc = "parse_wrk_file"
    /\ res' = parse_wrk_file(variant, arg)
    /\ pc' = "parsed_wrk"
    /\ UNCHANGED <<variant, arg>>
    /\ UNCHANGED pipe

NextWrk == CallParseWrk

SpecWrk == InitWrk /\ [][NextWrk]_vars

\* the first line that begins with perc% and a duration: the match of the
\* per-line pattern
PercLine(perc) == Search(RePercLine(perc), arg)

\* that line's duration, in seconds
PercLineSeconds(perc) == convert_to_seconds(variant, Str(Group(arg, PercLine(perc), 1)))

\* C14: whenever a line begins with 50% (75%, 90%) and a duration, the p50
\* (p75, p90) of the dictionary is that line's duration in seconds, the
\* inline pattern being only a fallback; and p99 is None when the text holds
\* no 99% at all, whatever the inline pattern matched.
C14_InlineIsFallback ==
    pc = "parsed_wrk" =>
        /\ PercLine(<<"5", "0">>).ok => res.p50 = PercLineSeconds(<<"5", "0">>)
        /\ PercLine(<<"7", "5">>).ok => res.p75 = PercLineSeconds(<<"7", "5">>)
        /\ PercLine(<<"9", "0">>).ok => res.p90 = PercLineSeconds(<<"9", "0">>)
        /\ (\A i \in 1..Len(arg) : ~HasAt(arg, i, <<"9", "9", "%">>, FALSE)) => res.p99 = None

(***************************************************************************)
(* The file tree under the root.  An entry is a regular file holding a log  *)
(* text or a directory holding entries.  A log text is carried in the two   *)
(* forms its readers scan it in: the lexemes of the CPU patterns and the    *)
(* characters of the load-test patterns.                                    *)
(***************************************************************************)
FileText(lexemes, chars) == [lexemes |-> lexemes, chars |-> chars]
NoText == FileText(<<>>, <<>>)
File(name, text) == [name |-> name, kind |-> "file", text |-> text, entries |-> {}]
Dir(name, entries) == [name |-> name, kind |-> "dir", text |-> NoText, entries |-> entries]

\* the characters of the names and paths, in code-point order
CodeOrder ==
    <<" ", "&", "*", ".", "/", "0", "1", "2", "3", "4", "5", "6", "7", "8", "9", "<", ">">>
        \o UpperCase \o <<"_">> \o LowerCase

Ord(c) == CHOOSE i \in 1..Len(CodeOrder) : CodeOrder[i] = c

\* a < b on str (and on sibling Path objects, which compare by their parts)
RECURSIVE StrLess(_, _)
StrLess(a, b) ==
    IF a = <<>> THEN b # <<>>
    ELSE IF b = <<>> THEN FALSE
    ELSE IF Head(a) = Head(b) THEN StrLess(Tail(a), Tail(b))
    ELSE Ord(Head(a)) < Ord(Head(b))

\* sorted(d.iterdir()): the entries of a directory by name
RECURSIVE SortedEntries(_)
SortedEntries(S) ==
    IF S = {} THEN <<>>
    ELSE LET m == CHOOSE x \in S : \A y \in S \ {x} : StrLess(x.name, y.name)
         IN  <<m>> \o SortedEntries(S \ {m})

\* d.iterdir(): the entries in an order the file system chooses
IterDir(S) ==
    {o \in [1..Cardinality(S) -> S] : \A i, j \in 1..Cardinality(S) : i # j => o[i] # o[j]}

\* str(d / name)
PathJoin(d, name) == d \o <<"/">> \o name

\* w in s
Contains(s, w) == \E i \in 1..Len(s) : HasAt(s, i, w, FALSE)

\* Path.suffix: from the last dot of the name, unless it is first or last
Suffix(name) ==
    LET dots == {i \in 1..Len(name) : name[i] = "."}
    IN  IF dots = {} THEN <<>>
        ELSE IF 1 < Max(dots) /\ Max(dots) < Len(name)
        THEN SubSeq(name, Max(dots), Len(name))
        ELSE <<>>

W_WRK == <<"w", "r", "k">>
W_TXT == <<".", "t", "x", "t">>
W_LOG == <<".", "l", "o", "g">>
W_AVG_CPU == <<"a", "v", "g", "_", "c", "p", "u", "_">>
W_SUMMARY == <<"s", "u", "m", "m", "a", "r", "y", "_">>
W_IPS == <<"i", "p", "s">>
W_WAF == <<"w", "a", "f">>
P_AVG_CPU_IPS == <<"A", "V", "G", "_", "C", "P", "U", "_", "i", "p", "s", "_", "*", ".", "t", "x", "t">>
P_AVG_CPU_WAF == <<"A", "V", "G", "_", "C", "P", "U", "_", "w", "a", "f", "_", "*", ".", "t", "x", "t">>
P_WRK == <<"*", "w", "r", "k", "*", ".", "t", "x", "t">>

\* (?<!\d)(\d{2,5})(?!\d)
ReStandalone == <<NotAfterDigit, Open(1), Rep("\\d", 2, 5), Close(1), NotBeforeDigit>>
\* (\d{2,5})
ReDigits == <<Open(1), Rep("\\d", 2, 5), Close(1)>>
\* c(\d+)
ReCNumber == <<Word(<<"c">>, FALSE), Open(1), Plus("\\d"), Close(1)>>

\* int(m.group(1)) of re.search(pat, name), or None
SearchInt(pat, name) ==
    LET m == Search(pat, name)
    IN  IF m.ok THEN Some(DigitsValue(Group(name, m, 1), 1, Len(Group(name, m, 1)) + 1))
        ELSE None

\* a wrong test: the listed values are forgotten, only the comparison stays
AcceptsByComparisonOnly(v, num) == IF v = "simple" THEN num >= 100 ELSE num > 100

\* the test a standalone number of a file name must pass
AcceptsConcurrency(v, num) ==
    IF v = "simple"
    THEN num \in {50, 100, 200, 300, 500, 1000, 2000, 4000} \/ num >= 100
    ELSE num \in {50, 100, 200, 300, 500, 1000, 2000} \/ num > 100

\* The load-test file of the run: the first entry in iteration order that
\* is a regular file named like one.
WrkSlot(v, files) ==
    LET hits == {i \in 1..Len(files) :
                    /\ files[i].kind = "file"
                    /\ IF v = "simple"
                       THEN /\ Contains(files[i].name, W_WRK)
                            /\ Suffix(files[i].name) \in {W_TXT, W_LOG}
                       ELSE Contains(LowerStr(files[i].name), W_WRK)}
    IN  IF hits = {} THEN None ELSE Some(files[Min(hits)])

\* The CPU file of a unit (ips, waf): every matching entry overwrites the
\* candidate, so the last one stays.  analyze_results.py takes regular files
\* whose name starts with avg_cpu_<unit> and lets a later loop over
\* summary_<unit> overwrite; analyze_results_report.py takes any entry whose
\* name contains either word.
CpuSlot(v, files, unit) ==
    LET n(i)  == LowerStr(files[i].name)
        avg   == {i \in 1..Len(files) :
                     files[i].kind = "file" /\ StartsWith(n(i), W_AVG_CPU \o unit)}
        summ  == {i \in 1..Len(files) :
                     files[i].kind = "file" /\ StartsWith(n(i), W_SUMMARY \o unit)}
        any   == {i \in 1..Len(files) :
                     Contains(n(i), W_AVG_CPU \o unit) \/ Contains(n(i), W_SUMMARY \o unit)}
    IN  IF v = "simple"
        THEN (IF summ # {} THEN Some(files[Max(summ)])
              ELSE IF avg # {} THEN Some(files[Max(avg)])
              ELSE None)
        ELSE (IF any # {} THEN Some(files[Max(any)]) ELSE None)

\* The concurrency of the run: the first accepted standalone number of a
\* name in iteration order, else (analyze_results.py) the first digits of
\* the ips CPU file's name, else the c<digits> of the load-test file's name.
Concurrency(v, files, avg_ips, wrk) ==
    LET num(i) == SearchInt(ReStandalone, files[i].name)
        hits   == {i \in 1..Len(files) :
                      ~num(i).absent /\ AcceptsConcurrency(v, num(i).v)}
        byIps  == IF v = "simple" /\ ~avg_ips.absent
                  THEN SearchInt(ReDigits, avg_ips.v.name) ELSE None
        byWrk  == IF ~wrk.absent THEN SearchInt(ReCNumber, wrk.v.name) ELSE None
    IN  IF hits # {} THEN num(Min(hits))
        ELSE IF ~byIps.absent THEN byIps
        ELSE byWrk

(***************************************************************************)
(* The log texts found in the run directories.                              *)
(***************************************************************************)
\* AVG busy = 11.75 % avg idle = 88.25 % over 20 samples
T_CPU_FULL ==
    FileText(FBusy(Num(11750, TRUE)) \o FIdle(Num(88250, TRUE)) \o FOver(Num(20000, FALSE)),
             <<"A", "V", "G", " ", "b", "u", "s", "y", " ", "=", " ", "1", "1", ".", "7", "5", " ", "%", " ", "a", "v", "g", " ", "i", "d", "l", "e", " ", "=", " ", "8", "8", ".", "2", "5", " ", "%", " ", "o", "v", "e", "r", " ", "2", "0", " ", "s", "a", "m", "p", "l", "e", "s">>)

\* avg idle = 88.25 %
T_CPU_IDLE == FileText(FIdle(Num(88250, TRUE)), <<"a", "v", "g", " ", "i", "d", "l", "e", " ", "=", " ", "8", "8", ".", "2", "5", " ", "%">>)

\* a wrk report with a latency distribution
T_WRK_A ==
    FileText(<<Lit("Requests/sec:"), Num(1520500, TRUE), NL,
               Num(50000, FALSE), Lit("%"), Num(65540, TRUE), Lit("ms"), NL,
               Num(75000, FALSE), Lit("%"), Num(1040, TRUE), Lit("s"), NL,
               Num(90000, FALSE), Lit("%"), Num(2000, FALSE), Lit("s"), NL,
               Num(99000, FALSE), Lit("%"), Num(3000, FALSE), Lit("s"), NL,
               Lit("Socket errors:"), Lit("read"), Num(5000, FALSE), NL>>,
             <<"R", "e", "q", "u", "e", "s", "t", "s", "/", "s", "e", "c", ":", " ", "1", "5", "2", "0", ".", "5", "\n", "5", "0", "%", " ", "6", "5", ".", "5", "4", "m", "s", "\n", "7", "5", "%", " ", "1", ".", "0", "4", "s", "\n", "9", "0", "%", " ", "2", "s", "\n", "9", "9", "%", " ", "3", "s", "\n", "S", "o", "c", "k", "e", "t", " ", "e", "r", "r", "o", "r", "s", ":", " ", "r", "e", "a", "d", " ", "5", "\n">>)

\* a wrk report of another measurement
T_WRK_B ==
    FileText(<<Lit("Requests/sec:"), Num(900000, FALSE), NL,
               Num(50000, FALSE), Lit("%"), Num(7000, FALSE), Lit("ms"), NL>>,
             <<"R", "e", "q", "u", "e", "s", "t", "s", "/", "s", "e", "c", ":", " ", "9", "0", "0", "\n", "5", "0", "%", " ", "7", "m", "s", "\n">>)

\* a file none of the patterns matches
T_GARBAGE == FileText(<<Lit("no"), Lit("data")>>, <<"n", "o", " ", "d", "a", "t", "a">>)

FileTexts == {T_CPU_FULL, T_CPU_IDLE, T_WRK_A, T_WRK_B, T_GARBAGE}

\* parse_avg_cpu_file and parse_wrk_file on each text, computed once
ParsedCpu ==
    [k \in Variants \X FileTexts |-> parse_avg_cpu_file(k[1], k[2].lexemes)] @@ <<>>

ParsedWrk ==
    [k \in Variants \X FileTexts |-> parse_wrk_file(k[1], k[2].chars)] @@ <<>>

(***************************************************************************)
(* collect_results: one run directory.                                      *)
(***************************************************************************)
\* The row and the log entries of a run directory once its files are chosen
\* and parsed: cpu holds the parsed ips and waf CPU files, w the parsed
\* load-test log.  The columns a variant does not have (scenario_desc,
\* wrk_file, socket_errors, transfer_per_sec in analyze_results.py;
\* raw_errors in analyze_results_report.py) stay None.
RunRecord(v, scenario, run, run_dir, wrk, avg_ips, avg_waf, concurrency, cpu, w) ==
    [raised |-> \/ ~avg_ips.absent /\ avg_ips.v.kind = "dir"
                \/ ~avg_waf.absent /\ avg_waf.v.kind = "dir",
     data |->
        [scenario |-> scenario,
         scenario_desc |-> IF v = "report" THEN Some(ScenarioDesc(scenario)) ELSE None,
         run |-> run,
         concurrency |-> concurrency,
         path |-> run_dir,
         avg_busy_ips |-> cpu.ips.busy, avg_idle_ips |-> cpu.ips.idle,
         samples_ips |-> cpu.ips.samples,
         avg_busy_waf |-> cpu.waf.busy, avg_idle_waf |-> cpu.waf.idle,
         samples_waf |-> cpu.waf.samples,
         requests_per_sec |-> w.requests_per_sec,
         p50 |-> w.p50, p75 |-> w.p75, p90 |-> w.p90, p99 |-> w.p99,
         socket_errors |-> w.socket_errors,
         transfer_per_sec |-> w.transfer_per_sec,
         wrk_file |-> IF v = "report" /\ ~wrk.absent
                      THEN Some(PathJoin(run_dir, wrk.v.name)) ELSE None,
         raw_errors |-> w.raw_errors],
     missing |->
        (IF avg_ips.absent THEN <<PathJoin(run_dir, P_AVG_CPU_IPS)>>
         ELSE IF ~cpu.ips.found THEN <<PathJoin(run_dir, avg_ips.v.name)>>
         ELSE <<>>)
        \o (IF avg_waf.absent THEN <<PathJoin(run_dir, P_AVG_CPU_WAF)>>
            ELSE IF ~cpu.waf.found THEN <<PathJoin(run_dir, avg_waf.v.name)>>
            ELSE <<>>)
        \o (IF wrk.absent THEN <<PathJoin(run_dir, P_WRK)>> ELSE <<>>)]

\* The chosen files are parsed.  read_text() on a directory chosen as CPU
\* file raises IsADirectoryError (raised): analyze_results_report.py does
\* not test is_file() for the CPU files.
ParseRun(v, scenario, run, run_dir, wrk, avg_ips, avg_waf, concurrency) ==
    RunRecord(v, scenario, run, run_dir, wrk, avg_ips, avg_waf, concurrency,
              [u \in {"ips", "waf"} |->
                  IF (IF u = "ips" THEN avg_ips ELSE avg_waf).absent
                     \/ (IF u = "ips" THEN avg_ips ELSE avg_waf).v.kind = "dir"
                  THEN NoCpu
                  ELSE ParsedCpu[<<v, (IF u = "ips" THEN avg_ips ELSE avg_waf).v.text>>]],
              IF wrk.absent THEN NoWrk ELSE ParsedWrk[<<v, wrk.v.text>>])

\* The files of the run are chosen among the entries, which iterate in the
\* order files (every iterdir() of analyze_results.py over the directory
\* yields this order).
ChooseFiles(v, scenario, run, run_dir, files, wrk, avg_ips, avg_waf) ==
    ParseRun(v, scenario, run, run_dir, wrk, avg_ips, avg_waf,
             Concurrency(v, files, avg_ips, wrk))

\* the visit of the run directory root/scenario/run
VisitRun(v, root, scenario, run, files) ==
    ChooseFiles(v, scenario, run, PathJoin(PathJoin(root, scenario), run), files,
                WrkSlot(v, files), CpuSlot(v, files, W_IPS), CpuSlot(v, files, W_WAF))

(***************************************************************************)
(* collect_results: the walk over root/<scenario>/<run>.                    *)
(***************************************************************************)
W_ANALYSIS_OUTPUT == <<"a", "n", "a", "l", "y", "s", "i", "s", "_", "o", "u", "t", "p", "u", "t">>

\* the files of root/analysis_output, as directory entries
OutdirEntries(out) ==
    {File(n, NoText) : n \in (IF out.csv.absent THEN {} ELSE {"summary_results.csv"})
                              \cup out.images
                              \cup (IF out.report.absent THEN {} ELSE {"report.html"})}

\* root.iterdir() once main has created root/analysis_output
RootEntries(tree, out) ==
    tree.entries \cup (IF out.exists THEN {Dir(W_ANALYSIS_OUTPUT, OutdirEntries(out))} ELSE {})

\* the run directories of one scenario directory, sorted; other entries are
\* skipped
RunsOf(scenario_dir) ==
    LET runs == SortedEntries({r \in scenario_dir.entries : r.kind = "dir"})
    IN  [i \in 1..Len(runs) |->
            [scenario |-> scenario_dir.name, run |-> runs[i].name, files |-> runs[i].entries]]

\* the run directories in the order of the two sorted loops
Walk(entries) ==
    LET scenario_dirs == SortedEntries({e \in entries : e.kind = "dir"})
    IN  Concat([i \in 1..Len(scenario_dirs) |-> RunsOf(scenario_dirs[i])])

(***************************************************************************)
(* The summary CSV (DataFrame.to_csv).  A cell is empty for None / NaN; a   *)
(* column of integers that holds a None is a float column.                  *)
(***************************************************************************)
Cell(k, n, c, d) == [k |-> k, n |-> n, c |-> c, d |-> d]
EmptyCell == Cell("empty", Dec(0, 0), <<>>, <<>>)
IntCell(i) == Cell("int", Dec(i, 0), <<>>, <<>>)
FloatCell(x) == Cell("float", x, <<>>, <<>>)
TextCell(c) == Cell("text", Dec(0, 0), c, <<>>)
DescCell(d) == Cell("text", Dec(0, 0), <<>>, d)

\* a text column
TextOf(x) == IF x.absent THEN EmptyCell ELSE TextCell(x.v)

\* a column of floats kept as decimals
FloatOf(x) == IF x.absent THEN EmptyCell ELSE FloatCell(x.v)

\* a CPU percentage, kept in thousandths
PercentOf(x) == IF x.absent THEN EmptyCell ELSE FloatCell(Dec(x.v, 3))

\* a column of integers (concurrency after pd.to_numeric, samples_*)
IntOf(table, col, x) ==
    IF x.absent THEN EmptyCell
    ELSE IF \E i \in 1..Len(table) : table[i][col].absent THEN FloatCell(Dec(x.v, 0))
    ELSE IntCell(x.v)

CsvHeader(v) ==
    IF v = "simple"
    THEN <<"scenario", "run", "concurrency", "path", "avg_busy_ips", "avg_idle_ips",
           "avg_busy_waf", "avg_idle_waf", "samples_ips", "samples_waf",
           "requests_per_sec", "p50", "p75", "p90", "p99", "raw_errors">>
    ELSE <<"scenario", "scenario_desc", "run", "concurrency", "path", "avg_busy_ips",
           "avg_idle_ips", "samples_ips", "avg_busy_waf", "avg_idle_waf", "samples_waf",
           "requests_per_sec", "p50", "p75", "p90", "p99", "socket_errors",
           "transfer_per_sec", "wrk_file">>

\* the cell of row r of the table in column col
CellOf(table, r, col) ==
    CASE col \in {"scenario", "run", "path"} -> TextCell(r[col])
      [] col = "scenario_desc" -> IF r[col].absent THEN EmptyCell ELSE DescCell(r[col].v)
      [] col \in {"socket_errors", "raw_errors", "wrk_file"} -> TextOf(r[col])
      [] col \in {"concurrency", "samples_ips", "samples_waf"} -> IntOf(table, col, r[col])
      [] col \in {"avg_busy_ips", "avg_idle_ips", "avg_busy_waf", "avg_idle_waf"} ->
            PercentOf(r[col])
      [] OTHER -> FloatOf(r[col])

to_csv(v, table) ==
    [header |-> CsvHeader(v),
     lines  |-> [i \in 1..Len(table) |->
                    [j \in 1..Len(CsvHeader(v)) |-> CellOf(table, table[i], CsvHeader(v)[j])]]]

(***************************************************************************)
(* The HTML report (analyze_results_report.py).  The document is kept as    *)
(* the parts the template is filled with.                                   *)
(***************************************************************************)
\* s.replace(ch, w)
RECURSIVE Replace(_, _, _)
Replace(s, ch, w) ==
    IF s = <<>> THEN <<>>
    ELSE IF Len(s) = 1 THEN (IF s[1] = ch THEN w ELSE s)
    ELSE Replace(SubSeq(s, 1, Len(s) \div 2), ch, w)
            \o Replace(SubSeq(s, (Len(s) \div 2) + 1, Len(s)), ch, w)

html_escape(s) ==
    Replace(Replace(Replace(s, "&", <<"&", "a", "m", "p", ";">>), "<", <<"&", "l", "t", ";">>), ">", <<"&", "g", "t", ";">>)

\* html_escape on a description: the catalog sentences and token phrases
\* hold none of the three characters, the raw name may
EscapeDesc(desc) ==
    [i \in 1..Len(desc) |->
        IF desc[i].k = "raw" THEN Raw(html_escape(desc[i].c)) ELSE desc[i]]

\* sorted(set(strings))
RECURSIVE SortedStrings(_)
SortedStrings(S) ==
    IF S = {} THEN <<>>
    ELSE LET m == CHOOSE x \in S : \A y \in S \ {x} : StrLess(x, y)
         IN  <<m>> \o SortedStrings(S \ {m})

\* a wrong slice: s[-n:], the last n elements
TakeLast(s, n) == SubSeq(s, IF Len(s) < n THEN 1 ELSE Len(s) - n + 1, Len(s))

\* s[:n]
Take(s, n) == SubSeq(s, 1, IF Len(s) < n THEN Len(s) ELSE n)

\* chr(10).join(lines)
RECURSIVE JoinLines(_)
JoinLines(lines) ==
    IF lines = <<>> THEN <<>>
    ELSE IF Len(lines) = 1 THEN lines[1]
    ELSE lines[1] \o <<"\n">> \o JoinLines(Tail(lines))

\* round(v, 3) on a decimal (ties to even)
Round3(x) ==
    IF x.e <= 3 THEN x
    ELSE LET p == Pow10(x.e - 3)
             q == x.m \div p
             r == x.m % p
         IN  IF 2 * r < p THEN Dec(q, 3)
             ELSE IF 2 * r > p THEN Dec(q + 1, 3)
             ELSE IF q % 2 = 0 THEN Dec(q, 3) ELSE Dec(q + 1, 3)

\* a cell of small_df.to_html(index=False, na_rep='', escape=False): the
\* rounded columns are rounded, text goes out as it is
HtmlCell(table, r, col) ==
    LET c == CellOf(table, r, col)
    IN  IF /\ c.k = "float"
           /\ col \in {"avg_busy_ips", "avg_idle_ips", "avg_busy_waf", "avg_idle_waf",
                       "requests_per_sec", "p50", "p75", "p90", "p99", "transfer_per_sec"}
        THEN FloatCell(Round3(c.n))
        ELSE c

\* the img src of a chart: images.get(key, default)
ImageSrc(images, key, default) == IF key \in DOMAIN images THEN images[key] ELSE default

\* images maps the keys of the charts that were drawn to their file names
generate_html_report(table, log, images) ==
    LET present == SortedStrings({table[i].scenario : i \in 1..Len(table)})
    IN  [legend |-> [i \in 1..Len(present) |->
                        [scenario |-> html_escape(present[i]),
                         desc |-> EscapeDesc(ScenarioDesc(present[i]))]],
         table |-> [i \in 1..Len(table) |->
                      [j \in 1..Len(CsvHeader("report")) |->
                          HtmlCell(table, table[i], CsvHeader("report")[j])]],
         img |-> <<ImageSrc(images, "cpu", "cpu_busy.png"),
                   ImageSrc(images, "throughput", "throughput.png"),
                   ImageSrc(images, "latency", "latency_p50_p90.png"),
                   ImageSrc(images, "combined", "combined_summary.png")>>,
         missing |-> html_escape(JoinLines(Take(SortedStrings(Range(log)), 50)))]

(***************************************************************************)
(* main                                                                     *)
(***************************************************************************)
\* the charts in the order main draws them: key and file name
Charts ==
    <<[key |-> "cpu", file |-> "cpu_busy.png"],
      [key |-> "throughput", file |-> "throughput.png"],
      [key |-> "latency", file |-> "latency_p50_p90.png"],
      [key |-> "combined", file |-> "combined_summary.png"]>>

Exited(code, error) == [done |-> TRUE, code |-> code, error |-> error]

\* a printed message, with the lines listed under it
Say(msg) == [msg |-> msg, lines |-> <<>>]

\* An uncaught exception: the traceback is printed and the status is 1.
Uncaught(error) == Exited(1, error)

\* main up to the call of collect_results (no --out option given).  A root
\* that is a regular file exists, and mkdir of root/analysis_output raises
\* NotADirectoryError.  The tree stays as it is while main runs.
MainStart ==
    /\ pc = "main"
    /\ IF arg.kind = "absent"
       THEN /\ exit' = Exited(1, "root not found")
            /\ console' = Append(console, Say("Erreur: dossier racine non trouve"))
            /\ pc' = "exited"
            /\ UNCHANGED <<walk, outdir>>
       ELSE IF arg.kind = "file"
       THEN /\ exit' = Uncaught("NotADirectoryError")
            /\ console' = Append(console, Say("Traceback"))
            /\ pc' = "exited"
            /\ UNCHANGED <<walk, outdir>>
       ELSE /\ outdir' = [outdir EXCEPT !.exists = TRUE]
            /\ walk' = Walk(RootEntries(arg, outdir'))
            /\ console' = Append(console, Say("Collecting results"))
            /\ pc' = "collect_results"
            /\ UNCHANGED exit
    /\ rows' = <<>>
    /\ missing' = <<>>
    /\ UNCHANGED <<variant, arg, res, prev>>

\* collect_results: the body of the inner loop for the next run directory,
\* its entries iterating in an order of the file system's choosing
CollectRun ==
    /\ pc = "collect_results"
    /\ walk # <<>>
    /\ \E files \in IterDir(Head(walk).files) :
        \E r \in {VisitRun(variant, arg.path, Head(walk).scenario, Head(walk).run, files)} :
              IF r.raised
              THEN /\ exit' = Uncaught("IsADirectoryError")
                   /\ console' = Append(console, Say("Traceback"))
                   /\ pc' = "exited"
                   /\ UNCHANGED <<rows, missing, walk>>
              ELSE /\ rows' = Append(rows, r.data)
                   /\ missing' = missing \o r.missing
                   /\ walk' = Tail(walk)
                   /\ UNCHANGED <<exit, console, pc>>
    /\ UNCHANGED <<variant, arg, res, outdir, prev>>

\* main after collect_results returned: the empty table is fatal, otherwise
\* the concurrency column is made numeric and the CSV is written
Export ==
    /\ pc = "collect_results"
    /\ walk = <<>>
    /\ IF rows = <<>>
       THEN /\ exit' = Exited(1, "no data")
            /\ console' = Append(console, Say("Aucune donnee trouvee"))
            /\ pc' = "exited"
            /\ UNCHANGED outdir
       ELSE /\ outdir' = [outdir EXCEPT !.csv = Some(to_csv(variant, rows))]
            /\ console' = Append(console, Say("CSV"))
            /\ pc' = "plots"
            /\ UNCHANGED exit
    /\ UNCHANGED <<variant, arg, res, rows, missing, walk, prev>>

\* The four charts.  Chart number failed raises (none when 0), the ones
\* before it are written.  analyze_results.py lets the exception go;
\* analyze_results_report.py catches it, keeps in the dictionary images (res)
\* the keys set so far and goes on to the report.
Plots ==
    /\ pc = "plots"
    /\ \E failed \in 0..Len(Charts) :
          LET drawn == IF failed = 0 THEN Len(Charts) ELSE failed - 1
          IN  /\ outdir' = [outdir EXCEPT
                               !.images = @ \cup {Charts[i].file : i \in 1..drawn}]
              /\ res' = IF variant = "report"
                        THEN [k \in {Charts[i].key : i \in 1..drawn} |->
                                 (CHOOSE c \in Range(Charts) : c.key = k).file]
                        ELSE res
              /\ IF failed # 0 /\ variant = "simple"
                 THEN /\ exit' = Uncaught("chart error")
                      /\ console' = Append(console, Say("Traceback"))
                      /\ pc' = "exited"
                 ELSE /\ console' = Append(console,
                                           Say(IF failed = 0 THEN "charts" ELSE "chart error"))
                      /\ pc' = "report"
                      /\ UNCHANGED exit
    /\ UNCHANGED <<variant, arg, rows, missing, walk, prev>>

\* analyze_results_report.py: the report is written and main returns
Report ==
    /\ pc = "report"
    /\ variant = "report"
    /\ outdir' = [outdir EXCEPT !.report = Some(generate_html_report(rows, missing, res))]
    /\ console' = Append(console, Say("Analyse terminee"))
    /\ exit' = Exited(0, "")
    /\ pc' = "exited"
    /\ UNCHANGED <<variant, arg, res, rows, missing, walk, prev>>

\* analyze_results.py: the first 30 distinct log entries are printed, sorted,
\* and main returns
Finish ==
    /\ pc = "report"
    /\ variant = "simple"
    /\ console' = (IF missing = <<>> THEN console
                   ELSE Append(console,
                               [msg |-> "non trouves ou non parses",
                                lines |-> Take(SortedStrings(Range(missing)), 30)]))
                  \o <<Say("Termine")>>
    /\ exit' = Exited(0, "")
    /\ pc' = "exited"
    /\ UNCHANGED <<variant, arg, res, rows, missing, walk, outdir, prev>>

\* whether this invocation wrote the summary CSV
Exported == \E i \in 1..Len(console) : console[i].msg = "CSV"

\* The script is run again on the same tree: a new process, the files of
\* root/analysis_output still there.  prev keeps the CSV the earlier
\* invocation wrote, if it wrote one, and the table collect_results
\* returned to it, if it returned.
Reinvoke ==
    /\ pc = "exited"
    /\ prev = <<>>
    /\ prev' = <<IF Exported THEN outdir.csv ELSE None,
                 IF exit.error \in {"", "no data", "chart error"} THEN Some(rows) ELSE None>>
    /\ pc' = "main"
    /\ res' = <<>>
    /\ rows' = <<>>
    /\ missing' = <<>>
    /\ walk' = <<>>
    /\ exit' = Running
    /\ console' = <<>>
    /\ UNCHANGED <<variant, arg, outdir>>

\* ======================== main on a tree of run directories ===============
\* at most MaxRuns run directories under the root
MaxRuns == 2

RootPath == <<"/", "d", "a", "t", "a">>
N_INJ_WAF == <<"I", "N", "J", "_", "W", "A", "F">>
N_R_AND_D == <<"R", "&", "D">>
N_RUN1 == <<"r", "u", "n", "1">>
N_RUN2 == <<"r", "u", "n", "2">>
N_NOTES == <<"n", "o", "t", "e", "s", ".", "t", "x", "t">>
F_IPS_500 == <<"A", "V", "G", "_", "C", "P", "U", "_", "i", "p", "s", "_", "5", "0", "0", ".", "t", "x", "t">>
F_IPS_100 == <<"A", "V", "G", "_", "C", "P", "U", "_", "i", "p", "s", "_", "1", "0", "0", ".", "t", "x", "t">>
F_WAF_500 == <<"A", "V", "G", "_", "C", "P", "U", "_", "w", "a", "f", "_", "5", "0", "0", ".", "t", "x", "t">>
F_SUMMARY_IPS == <<"s", "u", "m", "m", "a", "r", "y", "_", "i", "p", "s", ".", "t", "x", "t">>
F_WRK_C300 == <<"w", "r", "k", "_", "c", "3", "0", "0", ".", "t", "x", "t">>
F_WRK_C500 == <<"w", "r", "k", "_", "c", "5", "0", "0", ".", "t", "x", "t">>
F_AVG_CPU_IPS == <<"a", "v", "g", "_", "c", "p", "u", "_", "i", "p", "s">>

\* what a run directory may hold
RC_COMPLETE ==
    {File(F_IPS_500, T_CPU_FULL), File(F_WAF_500, T_CPU_IDLE), File(F_WRK_C500, T_WRK_A)}
RC_NO_WRK == {File(F_IPS_500, T_CPU_FULL), File(F_WAF_500, T_CPU_FULL)}
RC_TWO_WRK == {File(F_WRK_C300, T_WRK_A), File(F_WRK_C500, T_WRK_B)}
RC_CPU_DIR == {Dir(F_AVG_CPU_IPS, {}), File(F_WAF_500, T_CPU_FULL)}
RC_GARBAGE == {File(F_IPS_500, T_GARBAGE), File(F_WRK_C500, T_GARBAGE)}
RC_SUMMARY == {File(F_IPS_100, T_CPU_FULL), File(F_SUMMARY_IPS, T_CPU_IDLE)}
RC_EMPTY == {}

RunContents ==
    {RC_COMPLETE, RC_NO_WRK, RC_TWO_WRK, RC_CPU_DIR, RC_GARBAGE, RC_SUMMARY, RC_EMPTY}

RunPlaces == {<<N_INJ_WAF, N_RUN1>>, <<N_INJ_WAF, N_RUN2>>, <<N_R_AND_D, N_RUN1>>}

\* the root directory holding the run directories placed by f, next to a
\* file of notes
TreeOf(f) ==
    [path |-> RootPath, kind |-> "dir",
     entries |-> {Dir(s, {Dir(p[2], f[p]) : p \in {q \in DOMAIN f : q[1] = s}}) :
                     s \in {p[1] : p \in DOMAIN f}} \cup {File(N_NOTES, T_GARBAGE)}]

Trees ==
    {[path |-> RootPath, kind |-> k, entries |-> {}] : k \in {"absent", "file"}}
    \cup {TreeOf(f) :
            f \in UNION {[P -> RunContents] :
                            P \in {Q \in SUBSET RunPlaces : Cardinality(Q) <= MaxRuns}}}

Init ==
    /\ variant \in Variants
    /\ pc = "main"
    /\ arg \in Trees
    /\ res = <<>>
    /\ NoMain

Next ==
    \/ MainStart
    \/ CollectRun
    \/ Export
    \/ Plots
    \/ Report
    \/ Finish
    \/ Reinvoke

Spec == Init /\ [][Next]_vars

(***************************************************************************)
(* What the claims about collect_results and main speak of.                 *)
(***************************************************************************)
\* the run directories of the tree, in the order collect_results visits them
RunDirs == Walk(arg.entries)

RunPath(d) == PathJoin(PathJoin(arg.path, d.scenario), d.run)

\* collect_results returned its table and log to main
CollectReturned ==
    \/ pc \in {"plots", "report"}
    \/ pc = "exited" /\ exit.error \in {"", "no data", "chart error"}

\* collect_results returned or was left by an exception
CollectEnded == CollectReturned \/ (pc = "exited" /\ exit.error = "IsADirectoryError")

\* the rows and the log collect_results handed to main: nothing when an
\* exception left it
Emitted == IF CollectReturned THEN rows ELSE <<>>
EmittedLog == IF CollectReturned THEN missing ELSE <<>>

RowsOf(d) == {j \in 1..Len(Emitted) : Emitted[j].path = RunPath(d)}

\* the run directory holds no regular file with wrk in its name
NoLoadTestFile(d) ==
    \A f \in d.files : ~(f.kind = "file" /\ Contains(LowerStr(f.name), W_WRK))

LoadFieldsAbsent(r) ==
    /\ r.requests_per_sec.absent
    /\ r.p50.absent /\ r.p75.absent /\ r.p90.absent /\ r.p99.absent
    /\ r.socket_errors.absent /\ r.raw_errors.absent
    /\ r.transfer_per_sec.absent

\* C2: once collect_results has ended, every run directory without a
\* load-test file has one row, with the load-test fields absent, and exactly
\* one log entry <run_dir>/*wrk*.txt, and every run directory of the same
\* scenario has a row.
C2_NoWrkStillRecorded ==
    CollectEnded =>
        \A i \in 1..Len(RunDirs) :
            NoLoadTestFile(RunDirs[i]) =>
                /\ Cardinality(RowsOf(RunDirs[i])) = 1
                /\ \A j \in RowsOf(RunDirs[i]) : LoadFieldsAbsent(Emitted[j])
                /\ Cardinality({j \in 1..Len(EmittedLog) :
                                   EmittedLog[j] = PathJoin(RunPath(RunDirs[i]), P_WRK)}) = 1
                /\ \A k \in 1..Len(RunDirs) :
                      RunDirs[k].scenario = RunDirs[i].scenario => RowsOf(RunDirs[k]) # {}

\* C3: when the script has run twice on the unchanged tree and both
\* invocations wrote the summary CSV, the second CSV is the first one,
\* character for character.
C3_SameExportTwice ==
    (pc = "exited" /\ prev # <<>> /\ Exported) =>
        (~prev[1].absent => outdir.csv = prev[1])

\* the fatal cases: the root does not exist, or the walk finds no run
\* directory and so produces no row
FatalCase == arg.kind = "absent" \/ (arg.kind = "dir" /\ RunDirs = <<>>)

\* C7: an invocation that has ended exited with a non-zero status exactly
\* in the fatal cases, and in every other case it wrote the summary CSV.
C7_ExitStatus ==
    pc = "exited" =>
        /\ (exit.code # 0) <=> FatalCase
        /\ ~FatalCase => Exported

\* whether the text holds no <, no > and no & other than the one starting
\* one of the three entities html_escape writes
Escaped(s) ==
    \A i \in 1..Len(s) :
        /\ s[i] \notin {"<", ">"}
        /\ s[i] = "&" =>
              \/ HasAt(s, i, <<"&", "a", "m", "p", ";">>, FALSE)
              \/ HasAt(s, i, <<"&", "l", "t", ";">>, FALSE)
              \/ HasAt(s, i, <<"&", "g", "t", ";">>, FALSE)

\* a cell of the metrics table: its text, and the part of a description
\* taken from the scenario name
EscapedCell(c) ==
    /\ Escaped(c.c)
    /\ \A i \in 1..Len(c.d) : Escaped(c.d[i].c)

\* C9: in the report analyze_results_report.py has written, the legend, the
\* cells of the metrics table and the list of missing files hold no raw &,
\* < or > (the names, paths and file contents of the trees hold no entity).
C9_ReportEscaped ==
    (variant = "report" /\ ~outdir.report.absent) =>
        /\ \A i \in 1..Len(outdir.report.v.legend) :
              /\ Escaped(outdir.report.v.legend[i].scenario)
              /\ \A j \in 1..Len(outdir.report.v.legend[i].desc) :
                    Escaped(outdir.report.v.legend[i].desc[j].c)
        /\ \A i \in 1..Len(outdir.report.v.table) :
              \A j \in 1..Len(outdir.report.v.table[i]) :
                  EscapedCell(outdir.report.v.table[i][j])
        /\ Escaped(outdir.report.v.missing)

\* the files collect_results may choose for a slot of the run directory,
\* over the orders its entries may iterate in
Candidates(d, slot) ==
    {f \in d.files :
        \E o \in IterDir(d.files) :
            Some(f) = (IF slot = "wrk" THEN WrkSlot(variant, o)
                       ELSE CpuSlot(variant, o, IF slot = "ips" THEN W_IPS ELSE W_WAF))}

\* a regular file in which no pattern of the slot's parser matches
Unparsable(f, slot) ==
    /\ f.kind = "file"
    /\ IF slot = "wrk" THEN ParsedWrk[<<variant, f.text>>] = NoWrk
       ELSE ~ParsedCpu[<<variant, f.text>>].found

\* the log entries that speak of the slot of the run directory: the path of
\* a candidate, or the pattern of the slot
SlotEntries(d, slot) ==
    {PathJoin(RunPath(d), f.name) : f \in Candidates(d, slot)}
    \cup {PathJoin(RunPath(d), IF slot = "wrk" THEN P_WRK
                               ELSE IF slot = "ips" THEN P_AVG_CPU_IPS ELSE P_AVG_CPU_WAF)}

SlotFieldsAbsent(r, slot) ==
    IF slot = "wrk" THEN LoadFieldsAbsent(r)
    ELSE IF slot = "ips"
    THEN r.avg_busy_ips.absent /\ r.avg_idle_ips.absent /\ r.samples_ips.absent
    ELSE r.avg_busy_waf.absent /\ r.avg_idle_waf.absent /\ r.samples_waf.absent

\* C10: once collect_results has returned, for every run directory and
\* every slot (ips, waf, wrk) whose candidate files are all regular files in
\* which no pattern matches, the log holds an entry for the slot and the
\* row leaves the slot's fields absent.
C10_UnparsableLogged ==
    CollectReturned =>
        \A i \in 1..Len(RunDirs) : \A slot \in {"ips", "waf", "wrk"} :
            (/\ Candidates(RunDirs[i], slot) # {}
             /\ \A f \in Candidates(RunDirs[i], slot) : Unparsable(f, slot)) =>
                /\ \E j \in 1..Len(missing) : missing[j] \in SlotEntries(RunDirs[i], slot)
                /\ \A j \in RowsOf(RunDirs[i]) : SlotFieldsAbsent(rows[j], slot)

\* a chart raised during this invocation
ChartFailed ==
    \/ exit.error = "chart error"
    \/ \E i \in 1..Len(console) : console[i].msg = "chart error"

\* main reached its last statement
Completed == \E i \in 1..Len(console) : console[i].msg \in {"Analyse terminee", "Termine"}

\* C11: an invocation in which a chart raised still ends with status 0,
\* after the step that follows the charts (the report of
\* analyze_results_report.py, the closing listing of analyze_results.py).
C11_ChartFailureCaught ==
    (pc = "exited" /\ ChartFailed) => (exit.code = 0 /\ Completed)

\* C12: collect_results is never left by an exception, and when it returns
\* it has visited every run directory of the tree.
C12_WalkNeverAborts ==
    /\ pc = "exited" => exit.error # "IsADirectoryError"
    /\ CollectReturned => Len(rows) = Len(RunDirs)

(***************************************************************************)
(* Specification SpecVisit: the body of the run loop of collect_results,    *)
(* both variants, applied to every listing run_dir.iterdir() may yield for  *)
(* a run directory holding at most MaxFiles of the entries below.           *)
(***************************************************************************)
MaxFiles == 3

F_IPS_64 == <<"A", "V", "G", "_", "C", "P", "U", "_", "i", "p", "s", "_", "6", "4", ".", "t", "x", "t">>
F_WRK_C7 == <<"w", "r", "k", "_", "c", "7", ".", "t", "x", "t">>

RunEntries ==
    {File(F_IPS_100, T_CPU_FULL), File(F_SUMMARY_IPS, T_CPU_IDLE),
     File(F_IPS_64, T_CPU_IDLE), File(F_WRK_C300, T_WRK_A), File(F_WRK_C500, T_WRK_B),
     File(F_WRK_C7, T_WRK_B), File(N_NOTES, T_GARBAGE)}

Listings == UNION {IterDir(S) : S \in {T \in SUBSET RunEntries : Cardinality(T) <= MaxFiles}}

InitVisit ==
    /\ variant \in Variants
    /\ pc = "run_dir"
    /\ arg \in Listings
    /\ res = <<>>
    /\ NoMain

CallVisitRun ==
    /\ pc = "run_dir"
    /\ res' = VisitRun(variant, RootPath, N_INJ_WAF, N_RUN1, arg)
    /\ pc' = "visited"
    /\ UNCHANGED <<variant, arg>>
    /\ UNCHANGED pipe

NextVisit == CallVisitRun

SpecVisit == InitVisit /\ [][NextVisit]_vars

\* whether the entry is a candidate of the slot (wrk, ips, waf) for the
\* variant
SlotMatches(v, f, slot) ==
    IF slot = W_WRK
    THEN /\ f.kind = "file"
         /\ IF v = "simple"
            THEN Contains(f.name, W_WRK) /\ Suffix(f.name) \in {W_TXT, W_LOG}
            ELSE Contains(LowerStr(f.name), W_WRK)
    ELSE IF v = "simple"
    THEN /\ f.kind = "file"
         /\ \/ StartsWith(LowerStr(f.name), W_AVG_CPU \o slot)
            \/ StartsWith(LowerStr(f.name), W_SUMMARY \o slot)
    ELSE \/ Contains(LowerStr(f.name), W_AVG_CPU \o slot)
         \/ Contains(LowerStr(f.name), W_SUMMARY \o slot)

\* the first candidate of the slot in the listing
FirstMatching(v, files, slot) ==
    IF \E i \in 1..Len(files) : SlotMatches(v, files[i], slot)
    THEN Some(files[Min({i \in 1..Len(files) : SlotMatches(v, files[i], slot)})])
    ELSE None

\* C15: the row and the log entries of a run are those of the first
\* candidate of each slot in iteration order: no later candidate, a
\* summary_<role> file after an avg_cpu_<role> file included, replaces it.
C15_FirstCandidateWins ==
    pc = "visited" =>
        res = ChooseFiles(variant, N_INJ_WAF, N_RUN1,
                          PathJoin(PathJoin(RootPath, N_INJ_WAF), N_RUN1), arg,
                          FirstMatching(variant, arg, W_WRK),
                          FirstMatching(variant, arg, W_IPS),
                          FirstMatching(variant, arg, W_WAF))

\* The concurrency as the derivation is described: the first standalone
\* number of 2 to 5 digits, in iteration order of the names, that is in the
\* canonical set or greater than 100; else the 2 to 5 digits found in the
\* name of the ips CPU file; else the digits after c in the name of the
\* load-test file; else None.
DescribedConcurrency(v, files) ==
    LET num(i) == SearchInt(ReStandalone, files[i].name)
        hits   == {i \in 1..Len(files) :
                      /\ ~num(i).absent
                      /\ \/ num(i).v \in {50, 100, 200, 300, 500, 1000, 2000}
                         \/ num(i).v > 100}
        cpu    == CpuSlot(v, files, W_IPS)
        wrk    == WrkSlot(v, files)
        byCpu  == IF cpu.absent THEN None ELSE SearchInt(ReDigits, cpu.v.name)
        byWrk  == IF wrk.absent THEN None ELSE SearchInt(ReCNumber, wrk.v.name)
    IN  IF hits # {} THEN num(Min(hits))
        ELSE IF ~byCpu.absent THEN byCpu
        ELSE byWrk

\* C17: the concurrency of the row is the one of the described derivation:
\* primary scan, then the CPU file's name, then the c<digits> of the
\* load-test file's name, else absent.
C17_ConcurrencyDerivation ==
    pc = "visited" => res.data.concurrency = DescribedConcurrency(variant, arg)

\* the (scenario directory, run directory) pairs of the tree: the immediate
\* subdirectories of the root and their immediate subdirectories
RunPairs ==
    UNION {{<<s.name, r.name>> : r \in {e \in s.entries : e.kind = "dir"}} :
              s \in {e \in arg.entries : e.kind = "dir"}}

\* C16: the table collect_results returns has exactly one row per (scenario
\* directory, run directory) pair, in the lexicographic order of the
\* scenario names and then of the run names, and each row is the one a
\* traversal of the run directory's entries in lexicographic order gives.
C16_SortedTraversal ==
    CollectReturned =>
        /\ {<<rows[i].scenario, rows[i].run>> : i \in 1..Len(rows)} = RunPairs
        /\ Len(rows) = Cardinality(RunPairs)
        /\ \A i, j \in 1..Len(rows) :
              i < j => \/ StrLess(rows[i].scenario, rows[j].scenario)
                       \/ /\ rows[i].scenario = rows[j].scenario
                          /\ StrLess(rows[i].run, rows[j].run)
        /\ Len(rows) = Len(RunDirs)
        /\ \A i \in 1..Len(rows) :
              rows[i] = VisitRun(variant, arg.path, RunDirs[i].scenario, RunDirs[i].run,
                                 SortedEntries(RunDirs[i].files)).data

(***************************************************************************)
(* Specification SpecListing: generate_html_report applied to the table of  *)
(* one run and to logs of at most MaxLog entries (twice that with every     *)
(* entry logged twice), in several orders.                                  *)
(***************************************************************************)
MaxLog == 52

DigitChars == <<"0", "1", "2", "3", "4", "5", "6", "7", "8", "9">>

\* the log entry number j
LogEntry(j) == <<"/", "r", DigitChars[(j \div 10) + 1], DigitChars[(j % 10) + 1]>>

\* n entries, their numbers in steps of k; all of them a second time if dup
LogOf(n, k, dup) ==
    [i \in 1..n |-> LogEntry((i * k) % (MaxLog + 1))]
        \o (IF dup THEN [i \in 1..n |-> LogEntry((i * k) % (MaxLog + 1))] ELSE <<>>)

Logs == {LogOf(n, k, dup) : n \in 0..MaxLog, k \in {1, 3, 7}, dup \in BOOLEAN}

InitListing ==
    /\ variant = "report"
    /\ pc = "generate_html_report"
    /\ arg \in Logs
    /\ res = <<>>
    /\ NoMain

CallReport ==
    /\ pc = "generate_html_report"
    /\ res' = generate_html_report(<<VisitRun(variant, RootPath, N_INJ_WAF, N_RUN1, <<>>).data>>,
                                   arg, <<>>)
    /\ pc' = "reported"
    /\ UNCHANGED <<variant, arg>>
    /\ UNCHANGED pipe

NextListing == CallReport

SpecListing == InitListing /\ [][NextListing]_vars

\* the lines of a text
LinesOf(text) ==
    LET breaks == {i \in 1..Len(text) : text[i] = "\n"}
        nth(k) == IF k = 0 THEN 0
                  ELSE IF k > Cardinality(breaks) THEN Len(text) + 1
                  ELSE CHOOSE p \in breaks : Cardinality({q \in breaks : q <= p}) = k
    IN  IF text = <<>> THEN <<>>
        ELSE [k \in 1..(Cardinality(breaks) + 1) |->
                 SubSeq(text, nth(k - 1) + 1, nth(k) - 1)]

\* whether the listing holds min(50, number of entries) of the entries, in
\* strictly ascending order, all below every entry left out
FirstFiftySorted(listing, entries) ==
    /\ Len(listing) <= 50
    /\ Len(listing) = (IF Cardinality(entries) < 50 THEN Cardinality(entries) ELSE 50)
    /\ Range(listing) \subseteq entries
    /\ \A i \in 1..(Len(listing) - 1) : StrLess(listing[i], listing[i + 1])
    /\ \A y \in entries \ Range(listing) :
          listing # <<>> /\ StrLess(listing[Len(listing)], y)

\* C18: the listing of missing files in the report holds min(50, number of
\* distinct log entries) entries of the log, in strictly ascending order
\* (so none twice), and every listed entry is below every distinct log entry
\* that is left out.
C18_MissingListing ==
    pc = "reported" => FirstFiftySorted(LinesOf(res.missing), Range(arg))

\* a log of more than 50 distinct entries, logged twice each and not in
\* ascending order, of which the report lists 50
C18_Witness ==
    /\ pc = "reported"
    /\ Cardinality(Range(arg)) > 50
    /\ Len(arg) > Cardinality(Range(arg))
    /\ \E i \in 1..(Len(arg) - 1) : StrLess(arg[i + 1], arg[i])
    /\ Len(LinesOf(res.missing)) = 50

(***************************************************************************)
(* The table as an object.  main holds one DataFrame and hands it to every  *)
(* rendering function; a function that writes to the object it was given    *)
(* changes the table main exports.  frames holds the tables of the objects  *)
(* alive, an object is named by its place in frames, and every row carries  *)
(* its index label idx.                                                     *)
(***************************************************************************)
\* the element of a set of one element; in The({e(x) : x \in {d}}) the value
\* d is computed once and named x in e
The(S) == CHOOSE x \in S : TRUE

\* the table of the object d names
TableOf(d) == d.frames[d.id]

\* the same object under a second name, where a copy was meant
DfAlias(frames, id) == [frames |-> frames, id |-> id]

\* df.copy(): a new object holding the same values
DfCopy(frames, id) == [frames |-> Append(frames, frames[id]), id |-> Len(frames) + 1]

\* the object an expression returns (df[mask], pd.concat, sort_values)
DfNew(frames, table) == [frames |-> Append(frames, table), id |-> Len(frames) + 1]

\* df[col] = values: the column of the object itself is replaced or added
SetColumn(frames, id, col, values) ==
    [frames EXCEPT ![id] =
        [i \in 1..Len(frames[id]) |->
            [c \in DOMAIN frames[id][i] \cup {col} |->
                IF c = col THEN values[i] ELSE frames[id][i][c]]]]

\* df[col]: the values of a column
Column(table, col) == [i \in 1..Len(table) |-> CellOf(table, table[i], col)]

\* series.fillna(0): a new series, zero where the value is missing
FillNa(series) ==
    [i \in 1..Len(series) |->
        IF series[i].k = "empty" THEN FloatCell(Dec(0, 0)) ELSE series[i]]

\* the heights of the bars of a column, and of a latency column in ms
Bars(table, col) == [i \in 1..Len(table) |-> FillNa(Column(table, col))[i].n]
BarsMs(table, col) ==
    [i \in 1..Len(table) |-> Dec(Bars(table, col)[i].m * 1000, Bars(table, col)[i].e)]

\* str(n) of a natural number
RECURSIVE IntText(_)
IntText(n) ==
    IF n < 10 THEN <<DigitChars[n + 1]>>
    ELSE IntText(n \div 10) \o <<DigitChars[(n % 10) + 1]>>

\* f"{r['scenario']} ({r['concurrency']})": the concurrency of a column of
\* integers prints as 500, of a column holding NaN as 500.0 or nan
Label(table, r) ==
    LET c == CellOf(table, r, "concurrency")
    IN  r.scenario \o <<" ", "(">>
            \o (IF c.k = "empty" THEN <<"n", "a", "n">>
                ELSE IF c.k = "int" THEN IntText(c.n.m)
                ELSE IntText(c.n.m) \o <<".", "0">>)
            \o <<")">>

\* f"{r['scenario']}\n({int(r['concurrency']) if pd.notna(...) else 'NA'})"
LabelCombined(r) ==
    r.scenario \o <<"\n", "(">>
        \o (IF r.concurrency.absent THEN <<"N", "A">> ELSE IntText(r.concurrency.v))
        \o <<")">>

\* s.replace(w, by) for a word w
RECURSIVE ReplaceWord(_, _, _)
ReplaceWord(s, w, by) ==
    IF Len(s) < Len(w) THEN s
    ELSE IF SubSeq(s, 1, Len(w)) = w
    THEN by \o ReplaceWord(SubSeq(s, Len(w) + 1, Len(s)), w, by)
    ELSE <<Head(s)>> \o ReplaceWord(Tail(s), w, by)

\* sep.join(parts)
RECURSIVE JoinWith(_, _)
JoinWith(parts, sep) ==
    IF parts = <<>> THEN <<>>
    ELSE IF Len(parts) = 1 THEN parts[1]
    ELSE parts[1] \o sep \o JoinWith(Tail(parts), sep)

\* the abbreviation of a scenario name of more than 15 characters
ShortScenario(scenario) ==
    LET short == ReplaceWord(ReplaceWord(ReplaceWord(scenario,
                        <<"I", "N", "J", "_">>, <<>>),
                        <<"_", "W", "E", "B">>, <<>>),
                        <<"_", "P", "R", "O", "X", "Y">>, <<"_", "P">>)
        parts == Split(short, "_")
    IN  IF Len(scenario) <= 15 THEN scenario
        ELSE IF Len(short) <= 12 THEN short
        ELSE JoinWith([i \in 1..Len(parts) |->
                          IF Len(parts[i]) > 3 THEN SubSeq(parts[i], 1, 3) ELSE parts[i]],
                      <<"_">>)

\* create_readable_labels: the rows are read, nothing is written
create_readable_labels(table) ==
    [i \in 1..Len(table) |->
        ShortScenario(table[i].scenario) \o <<"\n">>
            \o (IF table[i].concurrency.absent THEN <<"N", "A">>
                ELSE <<"c">> \o IntText(table[i].concurrency.v))]

\* whether row a goes before row b in sort_values(['scenario',
\* 'concurrency']): NaN goes last
SortsBefore(a, b) ==
    \/ StrLess(a.scenario, b.scenario)
    \/ /\ a.scenario = b.scenario
       /\ ~a.concurrency.absent
       /\ (b.concurrency.absent \/ a.concurrency.v < b.concurrency.v)

\* df.sort_values(['scenario', 'concurrency']): rows with equal keys keep
\* their order
sort_values(table) ==
    LET before(i, j) ==
            \/ SortsBefore(table[i], table[j])
            \/ ~SortsBefore(table[j], table[i]) /\ i < j
        rank(i) == 1 + Cardinality({j \in 1..Len(table) : before(j, i)})
    IN  [k \in 1..Len(table) |-> table[CHOOSE i \in 1..Len(table) : rank(i) = k]]

\* df2 of a chart of analyze_results_report.py: custom_order(df.copy())
OrderedCopy(frames, df) ==
    The({DfNew(c.frames, custom_order(TableOf(c))) : c \in {DfCopy(frames, df)}})

\* df2 of a chart of analyze_results.py: the copy gets the column label and
\* is sorted
LabelledCopy(frames, df) ==
    The({The({DfNew(l, sort_values(l[c.id])) :
                l \in {SetColumn(c.frames, c.id, "label",
                                 [i \in 1..Len(TableOf(c)) |->
                                     Some(Label(TableOf(c), TableOf(c)[i]))])}}) :
            c \in {DfCopy(frames, df)}})

\* df2 of the combined figure of analyze_results.py:
\* df.copy().sort_values(...)
SortedCopy(frames, df) ==
    The({DfNew(c.frames, sort_values(TableOf(c))) : c \in {DfCopy(frames, df)}})

\* df2 and the tick labels of a chart
ChartFrame(v, frames, df) ==
    IF v = "report" THEN OrderedCopy(frames, df) ELSE LabelledCopy(frames, df)

ChartLabels(v, table) ==
    IF v = "report" THEN create_readable_labels(table)
    ELSE [i \in 1..Len(table) |-> table[i].label.v]

\* A chart is its tick labels and the heights of its groups of bars; the
\* objects alive when the function returns go with it.
Chart(v, d, bars) ==
    [frames |-> d.frames,
     out |-> [kind |-> "chart", labels |-> ChartLabels(v, TableOf(d)), bars |-> bars]]

plot_cpu(v, frames, df) ==
    The({Chart(v, d, <<Bars(TableOf(d), "avg_busy_ips"), Bars(TableOf(d), "avg_busy_waf")>>) :
            d \in {ChartFrame(v, frames, df)}})

plot_throughput(v, frames, df) ==
    The({Chart(v, d, <<Bars(TableOf(d), "requests_per_sec")>>) :
            d \in {ChartFrame(v, frames, df)}})

plot_latency(v, frames, df) ==
    The({Chart(v, d, <<BarsMs(TableOf(d), "p50"), BarsMs(TableOf(d), "p90")>>) :
            d \in {ChartFrame(v, frames, df)}})

\* plot_combined of analyze_results_report.py, the combined figure drawn by
\* main in analyze_results.py
plot_combined(v, frames, df) ==
    The({[frames |-> d.frames,
          out |-> [kind |-> "chart",
                   labels |-> IF v = "report" THEN create_readable_labels(TableOf(d))
                              ELSE [i \in 1..Len(TableOf(d)) |->
                                       LabelCombined(TableOf(d)[i])],
                   bars |-> <<Bars(TableOf(d), "avg_busy_ips"),
                              Bars(TableOf(d), "avg_busy_waf"),
                              Bars(TableOf(d), "requests_per_sec"),
                              BarsMs(TableOf(d), "p50"), BarsMs(TableOf(d), "p90")>>]] :
            d \in {IF v = "report" THEN OrderedCopy(frames, df)
                                   ELSE SortedCopy(frames, df)}})

\* the columns generate_html_report rounds
RoundedColumns ==
    <<"avg_busy_ips", "avg_idle_ips", "avg_busy_waf", "avg_idle_waf",
      "requests_per_sec", "p50", "p75", "p90", "p99", "transfer_per_sec">>

\* round(v, 3) if pd.notna(v) else v, on a value of the column col; the CPU
\* percentages are held in thousandths
RoundValue(col, x) ==
    IF x.absent \/ col \in {"avg_busy_ips", "avg_idle_ips", "avg_busy_waf", "avg_idle_waf"}
    THEN x
    ELSE Some(Round3(x.v))

\* for c in [...]: small_df[c] = small_df[c].apply(...), from column k on
RECURSIVE RoundColumns(_, _, _)
RoundColumns(frames, id, k) ==
    IF k > Len(RoundedColumns) THEN frames
    ELSE The({RoundColumns(f, id, k + 1) :
                f \in {SetColumn(frames, id, RoundedColumns[k],
                                 [i \in 1..Len(frames[id]) |->
                                     RoundValue(RoundedColumns[k],
                                                frames[id][i][RoundedColumns[k]])])}})

\* small_df of generate_html_report: the copy of df with its columns rounded
SmallDf(frames, df) ==
    The({[frames |-> RoundColumns(c.frames, c.id, 1), id |-> c.id] :
            c \in {DfCopy(frames, df)}})

\* generate_html_report on the object df: the table of the report is
\* small_df.to_html(), the rest is read from df
ReportOf(frames, df, log, images) ==
    The({[frames |-> d.frames,
          out |-> [kind |-> "report",
                   table |-> [i \in 1..Len(TableOf(d)) |->
                                [j \in 1..Len(CsvHeader("report")) |->
                                    CellOf(TableOf(d), TableOf(d)[i],
                                           CsvHeader("report")[j])]],
                   legend |-> g.legend, img |-> g.img, missing |-> g.missing]] :
            d \in {SmallDf(frames, df)},
            g \in {generate_html_report(frames[df], log, images)}})

\* custom_order on the object df: the ordered table is a new object
OrderOf(frames, df) ==
    The({[frames |-> d.frames, out |-> [kind |-> "frame", table |-> TableOf(d)]] :
            d \in {DfNew(frames, custom_order(frames[df]))}})

(***************************************************************************)
(* Specification SpecRender: the rendering functions and the export, in any *)
(* order, on the table main holds.  arg is the table as collected, res.df   *)
(* the table of the object main holds, res.out what the last rendering      *)
(* function made, res.csv the last export.                                  *)
(***************************************************************************)
\* at most MaxFrame rows in the table
MaxFrame == 2

\* four run directories: complete, without load test, without CPU files,
\* empty; each with its entries in lexicographic order
RenderRuns ==
    {<<N_NO_INJECTION, N_RUN1, SortedEntries(RC_COMPLETE)>>,
     <<N_INJ_IPS_WEB_NO_PROXY, N_RUN1, SortedEntries(RC_NO_WRK)>>,
     <<N_INJ_WAF, N_RUN2, SortedEntries(RC_TWO_WRK)>>,
     <<N_R_AND_D, N_RUN1, SortedEntries(RC_EMPTY)>>}

\* their rows
RenderRows(v) == {VisitRun(v, RootPath, p[1], p[2], p[3]).data : p \in RenderRuns}

\* pd.DataFrame(rows): the index labels are 0, 1, ...
DataFrame(table) ==
    [i \in 1..Len(table) |->
        [c \in DOMAIN table[i] \cup {"idx"} |-> IF c = "idx" THEN i - 1 ELSE table[i][c]]]

\* main renders a table that is not empty
RenderTables(v) == {DataFrame(t) : t \in SeqsUpTo(RenderRows(v), MaxFrame) \ {<<>>}}

InitRender ==
    /\ variant \in Variants
    /\ pc = "loaded"
    /\ arg \in RenderTables(variant)
    /\ res = [df |-> arg, out |-> [kind |-> "none"], csv |-> None]
    /\ NoMain

\* the function returned: main still holds its object, the others are gone
Rendered(name, r) ==
    /\ res' = [res EXCEPT !.df = r.frames[1], !.out = r.out]
    /\ pc' = name
    /\ UNCHANGED <<variant, arg>>
    /\ UNCHANGED pipe

CallPlotCpu == \E r \in {plot_cpu(variant, <<res.df>>, 1)} : Rendered("plot_cpu", r)

CallPlotThroughput ==
    \E r \in {plot_throughput(variant, <<res.df>>, 1)} : Rendered("plot_throughput", r)

CallPlotLatency ==
    \E r \in {plot_latency(variant, <<res.df>>, 1)} : Rendered("plot_latency", r)

CallPlotCombined ==
    \E r \in {plot_combined(variant, <<res.df>>, 1)} : Rendered("plot_combined", r)

CallOrderOf ==
    /\ variant = "report"
    /\ \E r \in {OrderOf(<<res.df>>, 1)} : Rendered("custom_order", r)

CallReportOf ==
    /\ variant = "report"
    /\ \E r \in {ReportOf(<<res.df>>, 1, <<>>, <<>>)} : Rendered("generate_html_report", r)

\* df.to_csv(): the export of the table main holds
CallToCsv ==
    /\ res' = [res EXCEPT !.csv = Some(to_csv(variant, res.df))]
    /\ pc' = "to_csv"
    /\ UNCHANGED <<variant, arg>>
    /\ UNCHANGED pipe

NextRender ==
    \/ CallPlotCpu
    \/ CallPlotThroughput
    \/ CallPlotLatency
    \/ CallPlotCombined
    \/ CallOrderOf
    \/ CallReportOf
    \/ CallToCsv

SpecRender == InitRender /\ [][NextRender]_vars

\* whether the table holds a missing value and a value of more than three
\* decimals
HasAbsentAndUnrounded(table) ==
    /\ \E i \in 1..Len(table) : table[i].p50.absent
    /\ \E i \in 1..Len(table) : ~table[i].p50.absent /\ table[i].p50.v.e > 3

\* C19: whatever was rendered, in whatever order, every field of every row
\* of the table main holds has the value it had when the table was
\* collected, and an export holds what an export before any rendering
\* holds.
C19_RenderingKeepsTable ==
    /\ res.df = arg
    /\ ~res.csv.absent => res.csv.v = to_csv(variant, arg)

\* an export written after a rendering of a table with a missing and an
\* unrounded latency: the chart has a bar of height zero, or the report a
\* rounded cell, where the export has the empty and the unrounded cell
C19_Witness ==
    /\ pc = "to_csv"
    /\ HasAbsentAndUnrounded(arg)
    /\ \/ /\ res.out.kind = "chart"
          /\ \E g \in 1..Len(res.out.bars) : \E i \in 1..Len(arg) :
                res.out.bars[g][i] = Dec(0, 0)
       \/ /\ res.out.kind = "report"
          /\ \E i \in 1..Len(arg) : \E j \in 1..Len(CsvHeader("report")) :
                /\ res.out.table[i][j].k = "float"
                /\ res.out.table[i][j] # res.csv.v.lines[i][j]
    /\ \E i \in 1..Len(arg) : \E j \in 1..Len(CsvHeader(variant)) :
          res.csv.v.lines[i][j] = EmptyCell

\* ======================== custom_order as a permutation ===================
\* the places of the row r in the table t
Places(t, r) == {k \in 1..Len(t) : t[k] = r}

\* the number of rows custom_order puts in its first and in its last bucket
FirstBucketSize(t) == Cardinality({i \in 1..Len(t) : t[i].scenario = NO_INJECTION})
LastBucketSize(t) == Cardinality({i \in 1..Len(t) : BucketRank(t[i]) = 4})

\* every row of t is once in o, and nothing else is
IsPermutation(t, o) ==
    /\ Len(o) = Len(t)
    /\ \A i \in 1..Len(t) : Cardinality(Places(o, t[i])) = 1

\* a "NO INJECTION" row at concurrency 300, 500 or 1000 is in the first
\* bucket of o
NoInjAtLoadFirst(t, o) ==
    \A i \in 1..Len(t) :
        (t[i].scenario = NO_INJECTION /\ t[i].concurrency \in {Some(300), Some(500), Some(1000)})
            => \A k \in Places(o, t[i]) : k <= FirstBucketSize(t)

\* C20 as stated: custom_order returns a permutation of its input, a
\* "NO INJECTION" row at concurrency 300, 500 or 1000 is in the first bucket
\* only, and every row with absent concurrency is in the last bucket.
C20_AsStated ==
    pc = "ordered" =>
        /\ IsPermutation(arg, res)
        /\ NoInjAtLoadFirst(arg, res)
        /\ \A i \in 1..Len(arg) :
              arg[i].concurrency.absent
                 => \A k \in Places(res, arg[i]) : k > Len(res) - LastBucketSize(arg)

\* C20: custom_order returns a permutation of its input: every row of the
\* input is exactly once in the output and the output has no other row; a
\* "NO INJECTION" row at concurrency 300, 500 or 1000 is in the first bucket
\* only; a row with absent concurrency is in the last bucket unless its
\* scenario is "NO INJECTION", and then it is in the first.
C20_Permutation ==
    pc = "ordered" =>
        /\ IsPermutation(arg, res)
        /\ NoInjAtLoadFirst(arg, res)
        /\ \A i \in 1..Len(arg) :
              arg[i].concurrency.absent
                 => \A k \in Places(res, arg[i]) :
                       IF arg[i].scenario = NO_INJECTION
                       THEN k <= FirstBucketSize(arg)
                       ELSE k > Len(res) - LastBucketSize(arg)

\* a table holding a "NO INJECTION" row at 500, a "NO INJECTION" row and
\* another row with absent concurrency, in an order custom_order changes,
\* has been ordered
C20_Witness ==
    /\ pc = "ordered"
    /\ Len(arg) = 3
    /\ arg[1].scenario # NO_INJECTION /\ arg[1].concurrency.absent
    /\ arg[2].scenario = NO_INJECTION /\ arg[2].concurrency.absent
    /\ arg[3].scenario = NO_INJECTION /\ arg[3].concurrency = Some(500)
    /\ res = <<arg[2], arg[3], arg[1]>>

\* ======================== the separate search for 99% =====================
\* C21: in analyze_results.py, whenever a line of the text begins with 99%
\* and a duration, the p99 of the dictionary is that line's duration in
\* seconds, also when "99%" stands earlier in the text inside a figure.
C21_P99FromItsLine ==
    (pc = "parsed_wrk" /\ variant = "simple" /\ PercLine(<<"9", "9">>).ok)
        => res.p99 = PercLineSeconds(<<"9", "9">>)

(***************************************************************************)
(* Specification SpecAccept: the primary scan for the concurrency, of       *)
(* either script, over a run directory that holds one file named after a    *)
(* number of two to five digits, like 500.txt.  arg is the number, res the  *)
(* outcome of the acceptance test on it and of the scan.                    *)
(***************************************************************************)
\* the largest number of five digits
MaxNumber == 99999

\* the listing of the run directory: <num>.txt
NumberedListing(num) == <<File(IntText(num) \o W_TXT, T_GARBAGE)>>

\* the first loop over the entries alone, no slot filled for the fallbacks
PrimaryScan(v, files) == Concurrency(v, files, None, None)

InitAccept ==
    /\ variant \in Variants
    /\ pc = "scan"
    /\ arg \in 10..MaxNumber
    /\ res = <<>>
    /\ NoMain

CallScan ==
    /\ pc = "scan"
    /\ res' = [accepted |-> AcceptsConcurrency(variant, arg),
               concurrency |-> PrimaryScan(variant, NumberedListing(arg))]
    /\ pc' = "scanned"
    /\ UNCHANGED <<variant, arg>>
    /\ UNCHANGED pipe

NextAccept == CallScan

SpecAccept == InitAccept /\ [][NextAccept]_vars

\* the other script
OtherVariant(v) == IF v = "simple" THEN "report" ELSE "simple"

RenderedImages == {res[k] : k \in DOMAIN res}

\* C23: the report written by an invocation refers to a chart image only if
\* that chart was drawn in the same invocation; after a chart failure no img
\* element names a chart that failed or was never attempted.
C23_OnlyRenderedImages ==
    (pc = "exited" /\ variant = "report" /\ Completed)
        => \A k \in 1..Len(outdir.report.v.img) : outdir.report.v.img[k] \in RenderedImages

\* ======================== the output of an earlier invocation =============
\* the second invocation on the tree got its table from collect_results, as
\* the first one did
CollectedTwice == CollectReturned /\ prev # <<>> /\ ~prev[2].absent

\* no row has the output directory as its scenario
NoOutputRow(table) == \A i \in 1..Len(table) : table[i].scenario # W_ANALYSIS_OUTPUT

\* C24: what an earlier invocation wrote to root/analysis_output never
\* becomes input of a later one: the second invocation on the same root
\* collects exactly the rows of the first, and none of them has the
\* scenario analysis_output.
C24_OutputNeverInput ==
    CollectedTwice => (rows = prev[2].v /\ NoOutputRow(rows))

====
